---- MODULE Spec2Model ----
(***************************************************************************)
(* A model of tapview's two protocol decoders: the PixArt heatmap register *)
(* protocol (src/src/heatmap) and the Linux multitouch state machine       *)
(* (src/src/multitouch.rs).                                                *)
(*                                                                         *)
(* Device I/O is modelled against a fixture device: every set_feature and  *)
(* get_feature call is appended to a log, the fixture answers register     *)
(* reads from a register file and burst reads from a byte stream, and any  *)
(* call may be made to fail.  A Rust function that returns io::Result is   *)
(* an operator from an I/O context to an I/O context; the context's st     *)
(* field is "ok", "err" (an Err was returned), "panic" (the thread         *)
(* panicked) or "hang" (the call never returns).                           *)
(***************************************************************************)
EXTENDS Integers, Sequences, FiniteSets, TLC

VARIABLES
    io,      \* I/O context of the heatmap thread: fixture device, call log, result
    hm,      \* heatmap thread: pc, chip, dimensions, drift detector
    sent,    \* HeatmapFrames sent on the output channel, oldest first
    mt,      \* MTStateMachine
    feed     \* position of the event feeder in the canned multitouch scenario

vars == <<io, hm, sent, mt, feed>>

\* ------------------------------------------------------------------ bounds

\* largest matrix dimension the fixture registers report
MaxDim == 3
\* largest burst report payload length (burst_len)
MaxReportLen == 3
\* frames the acquisition loop is followed for
MaxFrames == 4
\* largest total_bytes burst_read is called with on its own
MaxTotalBytes == 6
\* most status polls the fixture stays busy for
MaxBusy == 2
\* an f64 is a whole number of 1/Unit
Unit == 1000
\* frames the acquisition thread is followed for
MaxHeatFrames == 2
\* ALC commands the UI thread sends before it falls silent
MaxAlcSends == 2
\* complete items of a report descriptor handed to the parser
MaxDescItems == 4

\* events processed in one behaviour of the event-order specification
MaxHistory == 4
\* frames the drift detector is followed for beyond its window
MaxBeyondWindow == 30
\* bytes of an arbitrary byte string handed to the descriptor parser
MaxDescBytes == 4

\* --------------------------------------------------------- program constants

REPORT_SINGLE == 66     \* 0x42
REPORT_USER == 67       \* 0x43
REPORT_BURST == 65      \* 0x41
READ_FLAG == 16         \* 0x10
MAX_TOUCH_POINTS == 10
EMA_ALPHA_PER_MILLE == 5        \* EMA_ALPHA = 0.005
DRIFT_WINDOW == 500
DRIFT_THRESHOLD_PER_MILLE == 20 \* DRIFT_THRESHOLD = 0.02

Byte == 0..255

Min(a, b) == IF a <= b THEN a ELSE b

\* a | b on bytes
RECURSIVE BitOr(_, _)
BitOr(a, b) ==
    IF a = 0 THEN b
    ELSE IF b = 0 THEN a
    ELSE 2 * BitOr(a \div 2, b \div 2) + (IF a % 2 = 1 \/ b % 2 = 1 THEN 1 ELSE 0)

\* a & b on bytes
RECURSIVE BitAnd(_, _)
BitAnd(a, b) ==
    IF a = 0 \/ b = 0 THEN 0
    ELSE 2 * BitAnd(a \div 2, b \div 2) + (IF a % 2 = 1 /\ b % 2 = 1 THEN 1 ELSE 0)

\* ------------------------------------------------------------ fixture device

\* The register file of the fixture: <<report id, bank, addr>> -> byte.
\* Registers that are not listed read as 0.
\* The status register (single-register bank 6, 0x27) reads with bit 0 clear
\* while the fixture is busy and with bit 0 set afterwards; its other bits are
\* those of its entry in the register file.
IsStatusReg(sel) == sel = <<REPORT_SINGLE, 6, 39>>

StoredVal(dev, rep, bank, addr) ==
    IF <<rep, bank, addr>> \in DOMAIN dev.regs THEN dev.regs[<<rep, bank, addr>>] ELSE 0

RegVal(dev, rep, bank, addr) ==
    IF IsStatusReg(<<rep, bank, addr>>)
    THEN 2 * (StoredVal(dev, rep, bank, addr) \div 2) + (IF dev.busy > 0 THEN 0 ELSE 1)
    ELSE StoredVal(dev, rep, bank, addr)

\* A fixture device: its register file, the lengths it returns for burst
\* reads, the number of status polls it stays busy for, and the first byte of
\* its burst stream.
Device(regs, replies, busy, pos) ==
    [regs |-> regs, sel |-> <<0, 0, 0>>, replies |-> replies, calls |-> 0,
     pos |-> pos, busy |-> busy]

\* The k-th payload byte (k >= 1) of the fixture's burst stream.
StreamByte(k) == k % 256

\* Length the fixture returns for its c-th burst get_feature (c >= 1): the
\* entries of dev.replies in turn, the last one repeated for ever.
BurstReplyLen(dev, c) ==
    IF c <= Len(dev.replies) THEN dev.replies[c] ELSE dev.replies[Len(dev.replies)]

\* A fresh I/O context on device dev: nothing called yet.  fail is the set of
\* call numbers (positions in the log) that the operating system rejects.
NewIo(dev, fail, build) ==
    [dev |-> dev, fail |-> fail, build |-> build, ops |-> <<>>, st |-> "ok",
     err |-> "none", val |-> 0, buf |-> <<>>, data |-> <<>>, iters |-> <<>>]

\* HidDevice::set_feature: one call, logged; the fixture latches a register
\* read request (bank byte with READ_FLAG set) for the next get_feature.
set_feature(c, buf) ==
    LET k == Len(c.ops) + 1
        rejected == k \in c.fail
        isRead == (buf[3] \div READ_FLAG) % 2 = 1
    IN  [c EXCEPT
            !.ops = Append(@, [op |-> "set", buf |-> buf, len |-> Len(buf), ok |-> ~rejected]),
            !.st = IF rejected THEN "err" ELSE "ok",
            !.err = IF rejected THEN "io" ELSE @,
            !.dev = IF ~rejected /\ isRead
                    THEN [@ EXCEPT !.sel = <<buf[1], buf[3] - READ_FLAG, buf[2]>>]
                    ELSE @]

\* What the fixture writes into a buffer of length n for report id: a register
\* reply <<id, addr, bank | READ_FLAG, value>>, or the next burst chunk.
DevFill(dev, id, buf) ==
    IF id = REPORT_BURST
    THEN LET n == Min(BurstReplyLen(dev, dev.calls + 1), Len(buf))
         IN  [j \in 1..Len(buf) |->
                 IF j > n THEN buf[j]
                 ELSE IF j = 1 THEN id
                 ELSE StreamByte(dev.pos + j - 2)]
    ELSE LET reply == <<id, dev.sel[3], BitOr(dev.sel[2], READ_FLAG),
                        RegVal(dev, dev.sel[1], dev.sel[2], dev.sel[3])>>
         IN  [j \in 1..Len(buf) |-> IF j <= 4 THEN reply[j] ELSE buf[j]]

\* HidDevice::get_feature: one call, logged; on success c.buf is the filled
\* buffer and c.val the returned length.
get_feature(c, buf) ==
    LET k == Len(c.ops) + 1
        rejected == k \in c.fail
        id == buf[1]
        n == IF id = REPORT_BURST THEN BurstReplyLen(c.dev, c.dev.calls + 1) ELSE Min(4, Len(buf))
        entry == [op |-> "get", buf |-> <<id>>, len |-> Len(buf), ok |-> ~rejected]
    IN  IF rejected
        THEN [c EXCEPT !.ops = Append(@, entry), !.st = "err", !.err = "io"]
        ELSE [c EXCEPT
                !.ops = Append(@, entry),
                !.st = "ok",
                !.val = n,
                !.buf = DevFill(c.dev, id, buf),
                !.dev = IF id = REPORT_BURST
                        THEN [@ EXCEPT !.calls = @ + 1,
                                       !.pos = @ + (IF n >= 1 THEN Min(n, Len(buf)) - 1 ELSE 0)]
                        ELSE IF IsStatusReg(c.dev.sel) /\ c.dev.busy > 0
                        THEN [@ EXCEPT !.busy = @ - 1]
                        ELSE @]

\* ------------------------------------------------- register protocol layer

\* The value a call returned, bound once: in Returned({e(x) : x \in {call}})
\* the call is made once and e sees its result, as `let x = call;` does.
Returned(S) == CHOOSE r \in S : TRUE

\* WinHidDevice::get_feature: the same HID transfer, but HidD_GetFeature only
\* reports success, and the function returns Ok(buf.len()).
windows_get_feature(c, buf) ==
    Returned({IF g.st # "ok" THEN g ELSE [g EXCEPT !.val = Len(buf)]
              : g \in {get_feature(c, buf)}})

write_reg(c, bank, addr, value) ==
    set_feature(c, <<REPORT_SINGLE, addr, bank, value>>)

\* get_feature is issued whether or not the set_feature went through
read_reg_get_anyway(c, bank, addr) ==
    Returned({Returned({IF b.st # "ok" THEN b ELSE [b EXCEPT !.val = b.buf[4]]
                        : b \in {get_feature(a, <<REPORT_SINGLE, 0, 0, 0>>)}})
              : a \in {set_feature(c, <<REPORT_SINGLE, addr, BitOr(bank, READ_FLAG), 0>>)}})

read_reg(c, bank, addr) ==
    Returned({IF a.st # "ok" THEN a ELSE
              Returned({IF b.st # "ok" THEN b ELSE [b EXCEPT !.val = b.buf[4]]
                        : b \in {get_feature(a, <<REPORT_SINGLE, 0, 0, 0>>)}})
              : a \in {set_feature(c, <<REPORT_SINGLE, addr, BitOr(bank, READ_FLAG), 0>>)}})

read_user_reg(c, bank, addr) ==
    Returned({IF a.st # "ok" THEN a ELSE
              Returned({IF b.st # "ok" THEN b ELSE [b EXCEPT !.val = b.buf[4]]
                        : b \in {get_feature(a, <<REPORT_USER, 0, 0, 0>>)}})
              : a \in {set_feature(c, <<REPORT_USER, addr, BitOr(bank, READ_FLAG), 0>>)}})

\* every iteration takes the whole payload, also past total_bytes
burst_take_whole_chunk(remaining, payload_end) == payload_end - 1

\* the reply is taken to carry two leading bytes before the payload
burst_take_two_byte_header(remaining, payload_end) ==
    IF payload_end < 2 THEN 0 ELSE Min(remaining, payload_end - 2)

\* The payload bytes one burst iteration takes: remaining.min(payload_end - 1).
\* payload_end = 0 makes the usize subtraction wrap to usize::MAX in a release
\* build (the debug build panics before this point), and the min is remaining.
burst_take(remaining, payload_end) ==
    IF payload_end = 0 THEN remaining ELSE Min(remaining, payload_end - 1)

\* No later iteration of the burst loop can differ from this one: the fixture
\* repeats its last reply and no later call is rejected.
Stalled(c) ==
    /\ c.dev.calls >= Len(c.dev.replies)
    /\ \A k \in c.fail : k <= Len(c.ops)

\* The while loop of burst_read; c.data is result, c.buf is buf, and c.iters
\* records the returned length and the bytes taken of every iteration.
RECURSIVE burst_loop(_, _, _)
burst_loop(c, total_bytes, buf_size) ==
    IF ~(Len(c.data) < total_bytes) THEN c
    ELSE
      Returned({
        IF g.st # "ok" THEN g
        ELSE
          LET n == g.val
              payload_end == Min(n, buf_size)
              remaining == total_bytes - Len(g.data)
              take == burst_take(remaining, payload_end)
          IN  IF payload_end = 0 /\ g.build = "debug"
              THEN [g EXCEPT !.st = "panic", !.err = "subtract with overflow"]
              ELSE IF 1 + take > buf_size
              THEN [g EXCEPT !.st = "panic", !.err = "slice index out of range"]
              ELSE IF take = 0 /\ Stalled(g)
              THEN [g EXCEPT !.st = "hang", !.iters = Append(@, [n |-> n, take |-> take])]
              ELSE burst_loop([g EXCEPT !.data = @ \o SubSeq(g.buf, 2, 1 + take),
                                        !.iters = Append(@, [n |-> n, take |-> take])],
                              total_bytes, buf_size)
        : g \in {get_feature(c, [c.buf EXCEPT ![1] = REPORT_BURST])}})

burst_read(c, total_bytes, report_len) ==
    LET buf_size == 1 + report_len
    IN  burst_loop([c EXCEPT !.data = <<>>, !.buf = [j \in 1..buf_size |-> 0],
                             !.iters = <<>>],
                   total_bytes, buf_size)

\* ------------------------------------ chip identification and dimensions

ChipVariant == {"PJP274", "PJP343", "PJP255", "PJP215", "PLP239"}

\* the two part-ID bytes combined the wrong way round
part_id_of_swapped(lo, hi) == hi + 256 * lo

\* lo | (hi << 8)
part_id_of(lo, hi) == lo + 256 * hi

\* the match of identify_chip; "none" is the Unsupported error
chip_of_part_id(part_id) ==
    CASE part_id = 628 -> "PJP274"      \* 0x0274
      [] part_id = 835 -> "PJP343"      \* 0x0343
      [] part_id = 597 -> "PJP255"      \* 0x0255
      [] part_id = 533 -> "PJP215"      \* 0x0215
      [] part_id = 569 -> "PLP239"      \* 0x0239
      [] OTHER -> "none"

identify_chip(c) ==
    Returned({IF a.st # "ok" THEN a ELSE
              Returned({IF b.st # "ok" THEN b ELSE
                        LET chip == chip_of_part_id(part_id_of(a.val, b.val))
                        IN  IF chip = "none"
                            THEN [b EXCEPT !.st = "err", !.err = "Unsupported"]
                            ELSE [b EXCEPT !.val = chip]
                        : b \in {read_reg(a, 0, 121)}})                 \* 0x79
              : a \in {read_reg(c, 0, 120)}})                           \* 0x78

\* the two reads of read_matrix_dims: the first register and then the second
dims_pair(c, user, bank, first, second, plus) ==
    Returned({IF a.st # "ok" THEN a ELSE
              Returned({IF b.st # "ok" THEN b
                        ELSE [b EXCEPT !.val = <<a.val + plus, b.val + plus>>]
                        : b \in {IF user THEN read_user_reg(a, bank, second)
                                 ELSE read_reg(a, bank, second)}})
              : a \in {IF user THEN read_user_reg(c, bank, first)
                       ELSE read_reg(c, bank, first)}})

\* the bank-9 registers taken as the counts themselves
read_matrix_dims_stored(c, chip) ==
    IF chip \in {"PJP274", "PJP343"}
    THEN dims_pair(c, TRUE, 0, 110, 111, 0)
    ELSE IF chip \in {"PJP255", "PJP215"}
    THEN dims_pair(c, TRUE, 0, 90, 89, 0)
    ELSE dims_pair(c, FALSE, 9, 1, 2, 0)

\* on success val is <<rows, cols>>
read_matrix_dims(c, chip) ==
    IF chip \in {"PJP274", "PJP343"}
    THEN dims_pair(c, TRUE, 0, 110, 111, 0)         \* user 0x6E, 0x6F
    ELSE IF chip \in {"PJP255", "PJP215"}
    THEN dims_pair(c, TRUE, 0, 90, 89, 0)           \* user 0x5A, 0x59
    ELSE dims_pair(c, FALSE, 9, 1, 2, 1)            \* bank 9 0x01, 0x02, each + 1

\* ------------------------------------------------ frame acquisition engine

\* (x - 1) as u8 for a usize x: x = 0 wraps to usize::MAX in a release build,
\* whose low byte is 255; the debug build panics (see sub_one_panics).
sub_one_as_u8(x) == IF x = 0 THEN 255 ELSE (x - 1) % 256

sub_one_panics(c, x) == x = 0 /\ c.build = "debug"

Panic(c, why) == [c EXCEPT !.st = "panic", !.err = why]

\* a single read of the status register, whatever it holds
poll_finish_once(c, left) ==
    IF left = 0 THEN c ELSE read_reg(c, 6, 39)

\* for _ in 0..1000 { status = read_reg(6, 0x27)?; if status & 1 != 0 { break } }
\* The iterations are run as a first part and, unless the first part ended
\* the loop (an error returned by `?`, or the break), the rest; after at least
\* one iteration c.val is the status last read.
RECURSIVE poll_finish(_, _)
poll_finish(c, left) ==
    IF left = 0 THEN c
    ELSE IF left = 1 THEN read_reg(c, 6, 39)                            \* 0x27
    ELSE Returned({IF r.st # "ok" THEN r
                   ELSE IF BitAnd(r.val, 1) # 0 THEN r
                   ELSE poll_finish(r, left - (left \div 2))
                   : r \in {poll_finish(c, left \div 2)}})

\* One statement of a read_frame_* function, as data:
\*   <<"write", bank, addr, value>>   write_reg(dev, bank, addr, value)?
\*   <<"write_dim", bank, addr, dim>> write_reg(dev, bank, addr, (dim - 1) as u8)?
\*   <<"poll">>                       the status poll loop of the PLP239
\*   <<"burst">>                      burst_read(dev, total_bytes, burst_len)?
frame_step(c, s, total_bytes, burst_len) ==
    CASE s[1] = "write" -> write_reg(c, s[2], s[3], s[4])
      [] s[1] = "write_dim" ->
            IF sub_one_panics(c, s[4]) THEN Panic(c, "subtract with overflow")
            ELSE write_reg(c, s[2], s[3], sub_one_as_u8(s[4]))
      [] s[1] = "poll" -> poll_finish(c, 1000)
      [] s[1] = "burst" -> burst_read(c, total_bytes, burst_len)

\* every statement is run, and the first error is returned at the end
RECURSIVE frame_steps_run_all(_, _, _, _)
frame_steps_run_all(c, steps, total_bytes, burst_len) ==
    IF steps = <<>> THEN c
    ELSE Returned({IF x.st \in {"panic", "hang"} THEN x
                   ELSE Returned({IF x.st = "err" THEN [y EXCEPT !.st = "err", !.err = x.err]
                                  ELSE y
                                  : y \in {frame_steps_run_all(x, Tail(steps),
                                                               total_bytes, burst_len)}})
                   : x \in {frame_step(c, Head(steps), total_bytes, burst_len)}})

\* the statements in order, each ending in `?`: the first that does not
\* return Ok ends the function with its result
RECURSIVE frame_steps(_, _, _, _)
frame_steps(c, steps, total_bytes, burst_len) ==
    IF steps = <<>> THEN c
    ELSE Returned({IF x.st # "ok" THEN x
                   ELSE frame_steps(x, Tail(steps), total_bytes, burst_len)
                   : x \in {frame_step(c, Head(steps), total_bytes, burst_len)}})

\* the two dimension registers programmed the wrong way round
read_frame_pjp274_swapped(c, rows, cols, total_bytes, burst_len) ==
    frame_steps(c,
        << <<"write_dim", 6, 14, rows>>,
           <<"write_dim", 6, 15, cols>>,
           <<"write", 6, 9, 5>>,
           <<"write", 6, 10, 0>>,
           <<"burst">>,
           <<"write", 6, 10, 1>> >>,
        total_bytes, burst_len)

read_frame_pjp274(c, rows, cols, total_bytes, burst_len) ==
    frame_steps(c,
        << <<"write_dim", 6, 14, cols>>,     \* 0x0E = (cols - 1) as u8
           <<"write_dim", 6, 15, rows>>,     \* 0x0F = (rows - 1) as u8
           <<"write", 6, 9, 5>>,             \* 0x09 = 0x05
           <<"write", 6, 10, 0>>,            \* 0x0A = 0x00
           <<"burst">>,
           <<"write", 6, 10, 1>> >>,         \* 0x0A = 0x01
        total_bytes, burst_len)

\* chip-select asserted before frame-buffer mode is enabled
read_frame_pjp255_select_first(c, total_bytes, burst_len) ==
    frame_steps(c,
        << <<"write", 2, 9, 5>>,
           <<"write", 2, 10, 0>>,
           <<"write", 1, 13, 64>>,
           <<"write", 1, 14, 6>>,
           <<"burst">>,
           <<"write", 2, 10, 1>> >>,
        total_bytes, burst_len)

read_frame_pjp255(c, total_bytes, burst_len) ==
    frame_steps(c,
        << <<"write", 1, 13, 64>>,           \* 0x0D = 0x40
           <<"write", 1, 14, 6>>,            \* 0x0E = 0x06
           <<"write", 2, 9, 5>>,             \* 0x09 = 0x05
           <<"write", 2, 10, 0>>,            \* 0x0A = 0x00
           <<"burst">>,
           <<"write", 2, 10, 1>> >>,         \* 0x0A = 0x01
        total_bytes, burst_len)

read_frame_plp239(c, total_bytes, burst_len) ==
    frame_steps(c,
        << <<"write", 6, 32, 204>>,          \* 0x20 = 0xCC
           <<"write", 6, 37, 119>>,          \* 0x25 = 0x77
           <<"poll">>,
           <<"write", 6, 37, 221>>,          \* 0x25 = 0xDD
           <<"write", 4, 28, 0>>,            \* 0x1C
           <<"write", 4, 29, 0>>,            \* 0x1D
           <<"write", 6, 37, 17>>,           \* 0x25 = 0x11
           <<"burst">>,
           <<"write", 6, 37, 221>> >>,       \* 0x25 = 0xDD
        total_bytes, burst_len)

\* i16::from_le_bytes([lo, hi])
i16_from_le_bytes(lo, hi) ==
    LET u == lo + 256 * hi IN IF u >= 32768 THEN u - 65536 ELSE u

\* raw.chunks_exact(2).map(from_le_bytes): a trailing odd byte is dropped
le_bytes_to_i16(raw) ==
    [k \in 1..(Len(raw) \div 2) |-> i16_from_le_bytes(raw[2 * k - 1], raw[2 * k])]

\* on success data holds the i16 samples
read_frame(c, chip, rows, cols, burst_len) ==
    LET total_bytes == rows * cols * 2
    IN  Returned({IF raw.st # "ok" THEN raw
                  ELSE [raw EXCEPT !.data = le_bytes_to_i16(raw.data)]
                  : raw \in {IF chip \in {"PJP274", "PJP343"}
                             THEN read_frame_pjp274(c, rows, cols, total_bytes, burst_len)
                             ELSE IF chip \in {"PJP255", "PJP215"}
                             THEN read_frame_pjp255(c, total_bytes, burst_len)
                             ELSE read_frame_plp239(c, total_bytes, burst_len)}})

\* ----------------------------------------------------------- harness specs
\* The functions of the protocol layer called on their own against the
\* fixture: hm holds the arguments and whether the call has returned.

Builds == {"debug", "release"}

\* no call rejected, or exactly the k-th one, k up to the calls of the
\* unrejected run
FailSets(n) == {{}} \cup {{k} : k \in 1..n}

MtQuiet == mt = <<>> /\ feed = <<>>

\* the part-ID registers of the fixture
IdRegs(lo, hi) ==
    (<<REPORT_SINGLE, 0, 120>> :> lo) @@ (<<REPORT_SINGLE, 0, 121>> :> hi)

InitIdent ==
    /\ \E lo \in Byte, hi \in Byte :
          io = NewIo(Device(IdRegs(lo, hi), <<2>>, 0, 1), {}, "release")
    /\ hm = [pc |-> "call", fn |-> "identify_chip"]
    /\ sent = <<>>
    /\ MtQuiet

CallIdentifyChip ==
    /\ hm.pc = "call"
    /\ hm.fn = "identify_chip"
    /\ \E fail \in FailSets(4) : io' = identify_chip(NewIo(io.dev, fail, io.build))
    /\ hm' = [hm EXCEPT !.pc = "returned"]
    /\ UNCHANGED <<sent, mt, feed>>

NextIdent == CallIdentifyChip

SpecIdent == InitIdent /\ [][NextIdent]_vars

\* the part ID the fixture's registers 0x78 (low) and 0x79 (high) hold
FixturePartId ==
    io.dev.regs[<<REPORT_SINGLE, 0, 120>>] + 256 * io.dev.regs[<<REPORT_SINGLE, 0, 121>>]

KnownPartIds == {628, 835, 597, 533, 569}

IdentReturned == hm.fn = "identify_chip" /\ hm.pc = "returned"

\* C1: identify_chip reads bank 0 address 0x78 as the low byte and 0x79 as the
\* high byte of the part ID; for every 16-bit part ID it returns PJP274 for
\* 0x0274, PJP343 for 0x0343, PJP255 for 0x0255, PJP215 for 0x0215, PLP239 for
\* 0x0239 and the Unsupported error for every other value.
C1_IdentifyChipMapsPartId ==
    (IdentReturned /\ io.fail = {}) =>
        /\ Len(io.ops) = 4
        /\ io.ops[1].op = "set" /\ io.ops[1].buf = <<66, 120, 16, 0>>
        /\ io.ops[2].op = "get" /\ io.ops[2].buf = <<66>>
        /\ io.ops[3].op = "set" /\ io.ops[3].buf = <<66, 121, 16, 0>>
        /\ io.ops[4].op = "get" /\ io.ops[4].buf = <<66>>
        /\ FixturePartId = 628 => (io.st = "ok" /\ io.val = "PJP274")
        /\ FixturePartId = 835 => (io.st = "ok" /\ io.val = "PJP343")
        /\ FixturePartId = 597 => (io.st = "ok" /\ io.val = "PJP255")
        /\ FixturePartId = 533 => (io.st = "ok" /\ io.val = "PJP215")
        /\ FixturePartId = 569 => (io.st = "ok" /\ io.val = "PLP239")
        /\ FixturePartId \notin KnownPartIds => (io.st = "err" /\ io.err = "Unsupported")

C1_Witness ==
    /\ IdentReturned /\ io.fail = {}
    /\ FixturePartId = 835
    /\ io.st = "ok" /\ io.val = "PJP343"

\* ---- burst_read on its own

\* the lengths the fixture may return for a burst get_feature: 0 up to one more
\* than the largest buffer
ReplyLens == 0..(MaxReportLen + 2)

\* the fixture returns the same length every time, or one length once and
\* another ever after
ReplySeqs == {<<n>> : n \in ReplyLens} \cup {<<n, m>> : n \in ReplyLens, m \in {0, 1, 2}}

InitBurst ==
    /\ \E total_bytes \in 0..MaxTotalBytes, report_len \in 1..MaxReportLen,
          replies \in ReplySeqs, build \in Builds :
          /\ io = NewIo(Device(<<>>, replies, 0, 1), {}, build)
          /\ hm = [pc |-> "call", fn |-> "burst_read",
                   total_bytes |-> total_bytes, report_len |-> report_len]
    /\ sent = <<>>
    /\ MtQuiet

CallBurstRead ==
    /\ hm.pc = "call"
    /\ hm.fn = "burst_read"
    /\ \E fail \in FailSets(Len(burst_read(io, hm.total_bytes, hm.report_len).ops)) :
          io' = burst_read(NewIo(io.dev, fail, io.build), hm.total_bytes, hm.report_len)
    /\ hm' = [hm EXCEPT !.pc = "returned"]
    /\ UNCHANGED <<sent, mt, feed>>

NextBurst == CallBurstRead

SpecBurst == InitBurst /\ [][NextBurst]_vars

BurstReturned == hm.fn = "burst_read" /\ hm.pc = "returned"

\* the fixture returns fixed-size chunks: the same length n >= 2 for every call
FixedChunks == Len(io.dev.replies) = 1 /\ io.dev.replies[1] >= 2

\* payload bytes of one chunk that fit the buffer
ChunkPayload == Min(io.dev.replies[1], 1 + hm.report_len) - 1

CeilDiv(a, b) == (a + b - 1) \div b

\* C2: against a device that returns fixed-size chunks, burst_read returns
\* exactly total_bytes bytes, in the order received (the first total_bytes
\* bytes of the device's stream), and takes from the last chunk only the bytes
\* still missing, whether or not total_bytes is a multiple of the chunk size.
C2_BurstReadExactLength ==
    (BurstReturned /\ FixedChunks /\ io.fail = {}) =>
        /\ io.st = "ok"
        /\ Len(io.data) = hm.total_bytes
        /\ \A k \in 1..hm.total_bytes : io.data[k] = StreamByte(k)
        /\ Len(io.ops) = CeilDiv(hm.total_bytes, ChunkPayload)
        /\ \A i \in 1..Len(io.iters) :
              io.iters[i].take =
                  IF i < Len(io.iters) THEN ChunkPayload
                  ELSE hm.total_bytes - (Len(io.iters) - 1) * ChunkPayload

C2_Witness ==
    /\ BurstReturned /\ FixedChunks /\ io.fail = {}
    /\ ChunkPayload = 2
    /\ hm.total_bytes = 5
    /\ io.data = <<1, 2, 3, 4, 5>>
    /\ Len(io.ops) = 3

\* C3: a get_feature that returns length 0 inside burst_read causes neither an
\* underflow nor a panic: that iteration consumes no bytes, or burst_read fails
\* with an error.
C3_ZeroLengthReplyDefended ==
    BurstReturned =>
        /\ ~(io.st = "panic" /\ io.val = 0)
        /\ \A i \in 1..Len(io.iters) : io.iters[i].n = 0 => io.iters[i].take = 0

\* ---- read_frame on its own

\* full reports, short reports, a report with no payload, an empty reply
FrameReplySeqs(burst_len) == {<<1 + burst_len>>, <<2>>, <<1 + burst_len, 1>>, <<1 + burst_len, 0>>}

InitFrame ==
    /\ \E chip \in ChipVariant, rows \in 0..MaxDim, cols \in 0..MaxDim,
          burst_len \in 1..MaxReportLen, busy \in 0..MaxBusy, build \in Builds :
          \E replies \in FrameReplySeqs(burst_len) :
              /\ io = NewIo(Device(<<>>, replies, busy, 1), {}, build)
              /\ hm = [pc |-> "call", fn |-> "read_frame", chip |-> chip,
                       rows |-> rows, cols |-> cols, burst_len |-> burst_len]
    /\ sent = <<>>
    /\ MtQuiet

CallReadFrame ==
    /\ hm.pc = "call"
    /\ hm.fn = "read_frame"
    /\ \E fail \in FailSets(Len(read_frame(io, hm.chip, hm.rows, hm.cols, hm.burst_len).ops)) :
          io' = read_frame(NewIo(io.dev, fail, io.build),
                           hm.chip, hm.rows, hm.cols, hm.burst_len)
    /\ hm' = [hm EXCEPT !.pc = "returned"]
    /\ UNCHANGED <<sent, mt, feed>>

NextFrame == CallReadFrame

SpecFrame == InitFrame /\ [][NextFrame]_vars

FrameReturned == hm.fn = "read_frame" /\ hm.pc = "returned"

FamilyA == hm.chip \in {"PJP274", "PJP343"}

\* what a logged call asked of the device
OpSig(o) == <<o.op, o.buf>>

WriteSig(bank, addr, value) == <<"set", <<66, addr, bank, value>>>>

BurstGetSig == <<"get", <<65>>>>

\* C4: for rows*cols > 0 the Family A frame sequence issues, in this order,
\* write bank6 0x0E = cols-1, write bank6 0x0F = rows-1, write bank6 0x09 =
\* 0x05, write bank6 0x0A = 0x00, the burst read, write bank6 0x0A = 0x01;
\* both dimension writes precede the burst read.  Every call the sequence
\* makes is the next one of this order, and a sequence that succeeds has made
\* all of them.
C4_FamilyASequenceOrder ==
    (FrameReturned /\ FamilyA /\ hm.rows * hm.cols > 0) =>
        LET n == Len(io.ops)
            head == <<WriteSig(6, 14, hm.cols - 1), WriteSig(6, 15, hm.rows - 1),
                      WriteSig(6, 9, 5), WriteSig(6, 10, 0)>>
        IN  /\ \A i \in 1..n :
                  IF i <= 4 THEN OpSig(io.ops[i]) = head[i]
                  ELSE \/ OpSig(io.ops[i]) = BurstGetSig
                       \/ /\ i = n
                          /\ i > 5
                          /\ OpSig(io.ops[i]) = WriteSig(6, 10, 1)
            /\ io.st = "ok" =>
                  /\ n >= 6
                  /\ OpSig(io.ops[n]) = WriteSig(6, 10, 1)
                  /\ \A i \in 5..(n - 1) : OpSig(io.ops[i]) = BurstGetSig

C4_Witness ==
    /\ FrameReturned /\ hm.chip = "PJP343"
    /\ hm.rows = 1 /\ hm.cols = 3
    /\ io.st = "ok"
    /\ OpSig(io.ops[1]) = WriteSig(6, 14, 2)
    /\ OpSig(io.ops[2]) = WriteSig(6, 15, 0)
    /\ Len(io.ops) = 8

\* number of chip-select deassert writes (bank6 0x0A = 0x01) issued
DeassertCount == Cardinality({i \in 1..Len(io.ops) : OpSig(io.ops[i]) = WriteSig(6, 10, 1)})

\* chip-select was asserted: the write bank6 0x0A = 0x00 went through
ChipSelectAsserted ==
    \E i \in 1..Len(io.ops) : OpSig(io.ops[i]) = WriteSig(6, 10, 0) /\ io.ops[i].ok

\* C5: whenever a Family A frame acquisition that has asserted chip-select
\* returns, whether the burst read succeeded or failed, the chip-select
\* deassert write (bank6 0x0A = 0x01) has been issued exactly once.
C5_DeassertExactlyOnce ==
    (FrameReturned /\ FamilyA /\ hm.rows * hm.cols > 0
        /\ io.st \in {"ok", "err"} /\ ChipSelectAsserted) => DeassertCount = 1

\* --------------------------------------------------- f64 values of the loop
\* An f64 is modelled in fixed point, as a whole number of 1/Unit, rounded to
\* the nearest after every division; NaN is a value of its own.

NaN == -(2^30)

IsNaN(x) == x = NaN

\* a / b rounded to the nearest whole number, b > 0
RoundDiv(a, b) == (2 * a + b) \div (2 * b)

f64_from_int(v) == v * Unit

f64_sub(a, b) == IF IsNaN(a) \/ IsNaN(b) THEN NaN ELSE a - b

f64_add(a, b) == IF IsNaN(a) \/ IsNaN(b) THEN NaN ELSE a + b

\* x / n for a length n; 0.0 / 0.0 is NaN (a non-zero x is never divided by 0)
f64_div_len(x, n) == IF IsNaN(x) \/ n = 0 THEN NaN ELSE RoundDiv(x, n)

\* EMA_ALPHA * x
f64_mul_alpha(x) == IF IsNaN(x) THEN NaN ELSE RoundDiv(x * EMA_ALPHA_PER_MILLE, 1000)

f64_abs(x) == IF IsNaN(x) THEN NaN ELSE IF x < 0 THEN -x ELSE x

\* x > DRIFT_THRESHOLD; a comparison with NaN is false
f64_gt_threshold(x) == ~IsNaN(x) /\ 1000 * x > DRIFT_THRESHOLD_PER_MILLE * Unit

RECURSIVE SeqSum(_)
SeqSum(q) == IF q = <<>> THEN 0 ELSE q[1] + SeqSum(Tail(q))

\* ------------------------------------------------ calibration drift detector

\* data.iter().map(|&v| v as f64).sum()
sum_of(data) == f64_from_int(SeqSum(data))

\* sum / data.len() as f64
mean_of(data) == f64_div_len(sum_of(data), Len(data))

\* the baseline started from 0 instead of from the first mean
ema_next_from_zero(ema, mean) ==
    LET prev == IF ema = <<>> THEN 0 ELSE ema[1]
    IN  f64_add(prev, f64_mul_alpha(f64_sub(mean, prev)))

\* match ema { Some(prev) => prev + EMA_ALPHA * (mean - prev), None => mean }
ema_next(ema, mean) ==
    IF ema = <<>> THEN mean
    ELSE f64_add(ema[1], f64_mul_alpha(f64_sub(mean, ema[1])))

\* push(smoothed_mean) with nothing ever removed
history_push_unbounded(history, smoothed_mean) == Append(history, smoothed_mean)

\* if ema_history.len() >= DRIFT_WINDOW { remove(0) }; push(smoothed_mean)
history_push(history, smoothed_mean) ==
    Append(IF Len(history) >= DRIFT_WINDOW THEN Tail(history) ELSE history, smoothed_mean)

drift_rate_of(history, smoothed_mean) ==
    IF Len(history) >= 2
    THEN f64_div_len(f64_sub(smoothed_mean, history[1]), Len(history))
    ELSE 0

\* the threshold test alone, whatever the history holds
calibrating_of_rate_only(history, drift_rate) == f64_gt_threshold(f64_abs(drift_rate))

calibrating_of(history, drift_rate) ==
    Len(history) >= DRIFT_WINDOW /\ f64_gt_threshold(f64_abs(drift_rate))

\* "started" on every calibrating frame
diag_of_level(calibrating, was_calibrating) ==
    IF calibrating THEN <<"CALIBRATING started">>
    ELSE IF was_calibrating THEN <<"CALIBRATING stopped">>
    ELSE <<>>

\* the transition diagnostics of one frame
diag_of(calibrating, was_calibrating) ==
    IF calibrating /\ ~was_calibrating THEN <<"CALIBRATING started">>
    ELSE IF ~calibrating /\ was_calibrating THEN <<"CALIBRATING stopped">>
    ELSE <<>>

\* the loop's state before the first frame
FreshLoop ==
    [frame_count |-> 0, ema |-> <<>>, ema_history |-> <<>>, was_calibrating |-> FALSE,
     diag |-> <<>>]

\* the baseline smoothed over the sum of the samples instead of their mean
frame_ok_smoothing_sum(L, data, display_cols) ==
    IF display_cols = 0
    THEN [st |-> "panic", L |-> [L EXCEPT !.frame_count = @ + 1], frame |-> <<>>]
    ELSE
      LET display_rows == Len(data) \div display_cols
          mean == mean_of(data)
          smoothed_mean == ema_next(L.ema, sum_of(data))
          history == history_push(L.ema_history, smoothed_mean)
          drift_rate == drift_rate_of(history, smoothed_mean)
          calibrating == calibrating_of(history, drift_rate)
      IN  [st |-> "ok",
           L |-> [frame_count |-> L.frame_count + 1,
                  ema |-> <<smoothed_mean>>,
                  ema_history |-> history,
                  was_calibrating |-> calibrating,
                  diag |-> L.diag \o diag_of(calibrating, L.was_calibrating)],
           frame |-> [rows |-> display_rows, cols |-> display_cols, data |-> data,
                      mean |-> mean, smoothed_mean |-> smoothed_mean,
                      drift_rate |-> drift_rate, calibrating |-> calibrating]]

\* The Ok(data) arm of the acquisition loop up to the construction of the
\* frame: L is the loop's state; the result is the state after the arm and the
\* frame to send, or a panic on the division by display_cols = 0.
frame_ok(L, data, display_cols) ==
    IF display_cols = 0
    THEN [st |-> "panic", L |-> [L EXCEPT !.frame_count = @ + 1], frame |-> <<>>]
    ELSE
      LET display_rows == Len(data) \div display_cols
          mean == mean_of(data)
          smoothed_mean == ema_next(L.ema, mean)
          history == history_push(L.ema_history, smoothed_mean)
          drift_rate == drift_rate_of(history, smoothed_mean)
          calibrating == calibrating_of(history, drift_rate)
      IN  [st |-> "ok",
           L |-> [frame_count |-> L.frame_count + 1,
                  ema |-> <<smoothed_mean>>,
                  ema_history |-> history,
                  was_calibrating |-> calibrating,
                  diag |-> L.diag \o diag_of(calibrating, L.was_calibrating)],
           frame |-> [rows |-> display_rows, cols |-> display_cols, data |-> data,
                      mean |-> mean, smoothed_mean |-> smoothed_mean,
                      drift_rate |-> drift_rate, calibrating |-> calibrating]]

\* ---- the drift detector on its own, run twice side by side
\* Two acquisition loops start fresh and are fed frames with the same mean,
\* frame after frame, but otherwise unrelated (other samples, other lengths,
\* other display widths).  sent holds the frames of the first run, hm.twin the
\* frames of the second.

SampleFrames == {<<0>>, <<10>>, <<5, 15>>, <<-4>>, <<-3, -5>>}

InitDrift ==
    /\ \E ca \in 1..2, cb \in 1..2 :
          hm = [pc |-> "feed", fn |-> "drift", a |-> FreshLoop, b |-> FreshLoop,
                cols_a |-> ca, cols_b |-> cb, twin |-> <<>>, means |-> <<>>]
    /\ io = <<>>
    /\ sent = <<>>
    /\ MtQuiet

FeedFrame ==
    /\ hm.fn = "drift"
    /\ hm.a.frame_count < MaxFrames
    /\ \E da \in SampleFrames, db \in SampleFrames :
          LET ra == frame_ok(hm.a, da, hm.cols_a)
              rb == frame_ok(hm.b, db, hm.cols_b)
          IN  /\ ra.frame.mean = rb.frame.mean
              /\ hm' = [hm EXCEPT !.a = ra.L, !.b = rb.L,
                                  !.twin = Append(@, rb.frame),
                                  !.means = Append(@, ra.frame.mean)]
              /\ sent' = Append(sent, ra.frame)
    /\ UNCHANGED <<io, mt, feed>>

NextDrift == FeedFrame

SpecDrift == InitDrift /\ [][NextDrift]_vars

\* every mean fed so far is the same value
ConstantMeans == \A i \in 1..Len(hm.means) : hm.means[i] = hm.means[1]

\* C9: when the same frame mean m is fed N times to a fresh drift detector,
\* smoothed_mean equals m exactly after the first frame and never moves away
\* from m on any later frame.
C9_ConstantMeanIsFixedPoint ==
    (hm.fn = "drift" /\ ConstantMeans) =>
        \A i \in 1..Len(sent) : sent[i].smoothed_mean = hm.means[1]

C9_Witness ==
    /\ hm.fn = "drift" /\ ConstantMeans
    /\ Len(sent) >= 3
    /\ hm.means[1] = f64_from_int(10)
    /\ sent[3].smoothed_mean = f64_from_int(10)

AlcCommand == {"Reset", "Enable", "Disable"}

AlcCode(cmd) == CASE cmd = "Reset" -> 1 [] cmd = "Enable" -> 2 [] cmd = "Disable" -> 3

\* alc_reset / alc_enable / alc_disable / alc_is_enabled: one register access
\* through a chip-specific accessor, logged as such; it may be rejected.
alc_access(c, chip, code) ==
    LET k == Len(c.ops) + 1
        rejected == k \in c.fail
    IN  [c EXCEPT
            !.ops = Append(@, [op |-> "alc", buf |-> <<code>>, len |-> 0, ok |-> ~rejected]),
            !.st = IF rejected THEN "err" ELSE "ok",
            !.err = IF rejected THEN "io" ELSE @]

\* an error that the caller logs and ignores
Ignored(c) == [c EXCEPT !.st = "ok"]

\* while let Ok(cmd) = cmd_rx.try_recv(): every queued command is applied, a
\* failed one is logged and the next one still runs
RECURSIVE drain_commands(_, _, _)
drain_commands(c, chip, queue) ==
    IF queue = <<>> THEN c
    ELSE Returned({drain_commands(Ignored(d), chip, Tail(queue))
                   : d \in {alc_access(c, chip, AlcCode(Head(queue)))}})

\* the registers probe_dimension_registers reads, in order: <<user?, bank, addr>>
ProbeList ==
    <<<<TRUE, 0, 110>>, <<TRUE, 0, 111>>,
      <<TRUE, 0, 108>>, <<TRUE, 0, 109>>, <<TRUE, 0, 112>>, <<TRUE, 0, 113>>,
      <<TRUE, 0, 89>>, <<TRUE, 0, 90>>,
      <<FALSE, 9, 1>>, <<FALSE, 9, 2>>>>
    \o [k \in 1..32 |-> <<TRUE, 0, 95 + k>>]

\* every read of the probe is made, whether or not an earlier one failed
RECURSIVE probe_reads(_, _)
probe_reads(c, list) ==
    IF list = <<>> THEN c
    ELSE LET r == Head(list)
         IN  Returned({probe_reads(Ignored(d), Tail(list))
                       : d \in {IF r[1] THEN read_user_reg(c, r[2], r[3])
                                ELSE read_reg(c, r[2], r[3])}})

probe_dimension_registers(c) == probe_reads(c, ProbeList)

\* the override is ignored
display_cols_hardware(cols_override, cols) == cols

\* cols_override.unwrap_or(cols); an Option is <<>> or <<v>>
display_cols_of(cols_override, cols) ==
    IF cols_override = <<>> THEN cols ELSE cols_override[1]

\* the dimension registers of the fixture for each chip family
DimRegs(chip, a, b) ==
    IF chip \in {"PJP274", "PJP343"}
    THEN (<<REPORT_USER, 0, 110>> :> a) @@ (<<REPORT_USER, 0, 111>> :> b)
    ELSE IF chip \in {"PJP255", "PJP215"}
    THEN (<<REPORT_USER, 0, 90>> :> a) @@ (<<REPORT_USER, 0, 89>> :> b)
    ELSE (<<REPORT_SINGLE, 9, 1>> :> a) @@ (<<REPORT_SINGLE, 9, 2>> :> b)

PartIdOf(chip) ==
    CASE chip = "PJP274" -> 628 [] chip = "PJP343" -> 835 [] chip = "PJP255" -> 597
      [] chip = "PJP215" -> 533 [] chip = "PLP239" -> 569 [] OTHER -> 4660

\* a fixture that identifies as chip (or as an unknown part) with the two
\* dimension registers holding a and b
HeatFixture(chip, a, b, burst_len) ==
    Device(IdRegs(PartIdOf(chip) % 256, PartIdOf(chip) \div 256) @@ DimRegs(chip, a, b),
           <<1 + burst_len>>, 0, 1)

\* the thread before it has opened the device
ThreadStart(burst_len, cols_override) ==
    [pc |-> "open", fn |-> "thread", burst_len |-> burst_len,
     cols_override |-> cols_override, chip |-> "none", rows |-> 0, cols |-> 0,
     display_cols |-> 0, loop |-> FreshLoop, cmd_rx |-> <<>>, rx_alive |-> TRUE,
     exit |-> "none"]

InitHeat ==
    /\ \E chip \in ChipVariant \cup {"unknown"}, a \in 0..MaxDim, b \in 0..MaxDim,
          burst_len \in {2, MaxReportLen},
          cols_override \in {<<>>} \cup {<<v>> : v \in 0..(MaxDim + 1)},
          build \in Builds :
          /\ io = NewIo(HeatFixture(chip, a, b, burst_len), {}, build)
          /\ hm = ThreadStart(burst_len, cols_override)
    /\ sent = <<>>
    /\ MtQuiet

\* the thread carries on into the loop after logging the failure
Exit_and_continue(why) == [hm EXCEPT !.pc = "loop", !.exit = why]

Exit(why) == [hm EXCEPT !.pc = "exited", !.exit = why]

\* HidrawDevice::open
OpenDevice ==
    /\ hm.fn = "thread" /\ hm.pc = "open"
    /\ \E ok \in BOOLEAN :
          hm' = IF ok THEN [hm EXCEPT !.pc = "identify"] ELSE Exit("failed to open")
    /\ UNCHANGED <<io, sent, mt, feed>>

Identify ==
    /\ hm.fn = "thread" /\ hm.pc = "identify"
    /\ \E fail \in FailSets(4) :
          \E r \in {identify_chip(NewIo(io.dev, fail, io.build))} :
              /\ io' = r
              /\ hm' = IF r.st = "ok" THEN [hm EXCEPT !.pc = "dims", !.chip = r.val]
                       ELSE Exit("failed to identify chip")
    /\ UNCHANGED <<sent, mt, feed>>

\* read_matrix_dims, the register probe, display_cols and the ALC state log
ReadDims ==
    /\ hm.fn = "thread" /\ hm.pc = "dims"
    /\ \E fail \in FailSets(4) :
          \E r \in {read_matrix_dims(NewIo(io.dev, fail, io.build), hm.chip)} :
              IF r.st = "ok"
              THEN /\ io' = Ignored(alc_access(IF hm.chip = "PJP343"
                                                THEN probe_dimension_registers(r) ELSE r,
                                                hm.chip, 0))
                   /\ hm' = [hm EXCEPT !.pc = "loop",
                                       !.rows = r.val[1], !.cols = r.val[2],
                                       !.display_cols = display_cols_of(hm.cols_override, r.val[2])]
              ELSE /\ io' = r
                   /\ hm' = Exit("failed to read matrix dimensions")
    /\ UNCHANGED <<sent, mt, feed>>

\* One iteration of the loop: drain the ALC commands, read a frame, run the
\* drift detector and send the frame.
Iterate ==
    /\ hm.fn = "thread" /\ hm.pc = "loop"
    /\ hm.loop.frame_count < MaxHeatFrames
    /\ \E fail \in FailSets(Len(read_frame(NewIo(io.dev, {}, io.build),
                                           hm.chip, hm.rows, hm.cols, hm.burst_len).ops)
                            + Len(hm.cmd_rx)) :
          \E c \in {drain_commands(NewIo(io.dev, fail, io.build), hm.chip, hm.cmd_rx)} :
          \E r \in {read_frame(c, hm.chip, hm.rows, hm.cols, hm.burst_len)} :
          \E f \in {frame_ok(hm.loop, r.data, hm.display_cols)} :
              /\ io' = r
              /\ IF r.st = "err"
                 THEN hm' = [Exit("frame read error") EXCEPT !.cmd_rx = <<>>] /\ sent' = sent
                 ELSE IF r.st = "hang"
                 THEN hm' = [hm EXCEPT !.pc = "hung", !.cmd_rx = <<>>] /\ sent' = sent
                 ELSE IF r.st = "panic" \/ f.st = "panic"
                 THEN hm' = [hm EXCEPT !.pc = "panicked", !.cmd_rx = <<>>] /\ sent' = sent
                 ELSE IF hm.rx_alive
                 THEN /\ hm' = [hm EXCEPT !.loop = f.L, !.cmd_rx = <<>>]
                      /\ sent' = Append(sent, f.frame)
                 ELSE /\ hm' = [Exit("receiver dropped") EXCEPT !.loop = f.L, !.cmd_rx = <<>>]
                      /\ sent' = sent
    /\ UNCHANGED <<mt, feed>>

\* the UI closes and drops the receiving end of the frame channel
DropReceiver ==
    /\ hm.fn = "thread" /\ hm.rx_alive /\ hm.pc \in {"dims", "loop", "drain", "read"}
    /\ hm' = [hm EXCEPT !.rx_alive = FALSE]
    /\ UNCHANGED <<io, sent, mt, feed>>

NextHeat == OpenDevice \/ Identify \/ ReadDims \/ Iterate \/ DropReceiver

SpecHeat == InitHeat /\ [][NextHeat]_vars

\* what the fixture's dimension registers make read_matrix_dims report
HwRows ==
    IF hm.chip \in {"PJP274", "PJP343"} THEN io.dev.regs[<<REPORT_USER, 0, 110>>]
    ELSE IF hm.chip \in {"PJP255", "PJP215"} THEN io.dev.regs[<<REPORT_USER, 0, 90>>]
    ELSE io.dev.regs[<<REPORT_SINGLE, 9, 1>>] + 1

HwCols ==
    IF hm.chip \in {"PJP274", "PJP343"} THEN io.dev.regs[<<REPORT_USER, 0, 111>>]
    ELSE IF hm.chip \in {"PJP255", "PJP215"} THEN io.dev.regs[<<REPORT_USER, 0, 89>>]
    ELSE io.dev.regs[<<REPORT_SINGLE, 9, 2>>] + 1

Looping == hm.fn = "thread" /\ hm.chip \in ChipVariant /\ hm.pc # "dims"

\* the Family A dimension writes of the last frame read carry the hardware
\* dimensions (both at least 1)
HwDimsProgrammed ==
    (hm.chip \in {"PJP274", "PJP343"} /\ HwRows * HwCols > 0 /\ Len(io.ops) >= 2
        /\ io.ops[1].op = "set" /\ io.ops[1].buf[2] = 14) =>
        /\ io.ops[1].buf = <<66, 14, 6, HwCols - 1>>
        /\ io.ops[2].buf = <<66, 15, 6, HwRows - 1>>

\* C7: with a column override c every emitted HeatmapFrame has cols = c and
\* rows = floor(hw_rows*hw_cols / c), while the hardware read still uses the
\* register-derived hw_rows and hw_cols; without an override cols = hw_cols
\* and rows = hw_rows.
C7_ColumnOverride ==
    (Looping /\ sent # <<>>) =>
        /\ \A i \in 1..Len(sent) :
              /\ Len(sent[i].data) = HwRows * HwCols
              /\ IF hm.cols_override = <<>>
                 THEN sent[i].cols = HwCols /\ sent[i].rows = HwRows
                 ELSE /\ sent[i].cols = hm.cols_override[1]
                      /\ sent[i].rows = (HwRows * HwCols) \div hm.cols_override[1]
        /\ hm.rows = HwRows /\ hm.cols = HwCols
        /\ HwDimsProgrammed

C7_Witness ==
    /\ Looping /\ Len(sent) = 2
    /\ hm.chip = "PJP255"
    /\ HwRows = 3 /\ HwCols = 3
    /\ hm.cols_override = <<2>>
    /\ sent[2].cols = 2 /\ sent[2].rows = 4

\* C8: every HeatmapFrame sent on the output channel satisfies
\* data.len() = rows * cols, for every hardware dimension pair and every
\* column override.
C8_DataLenIsRowsTimesCols ==
    hm.fn = "thread" =>
        \A i \in 1..Len(sent) : Len(sent[i].data) = sent[i].rows * sent[i].cols

\* ------------------------------------------------ multitouch state machine

\* TouchData::default()
TouchDefault ==
    [used |-> FALSE, pressed |-> FALSE, pressed_double |-> FALSE, tracking_id |-> 0,
     position_x |-> 0, position_y |-> 0, pressure |-> 0, distance |-> 0,
     touch_major |-> 0, touch_minor |-> 0, width_major |-> 0, width_minor |-> 0,
     orientation |-> 0, tool_x |-> 0, tool_y |-> 0, tool_type |-> 0]

SlotIndex == 0..(MAX_TOUCH_POINTS - 1)

\* MTStateMachine::new(); slot is an Option: <<>> or <<index>>
MTNew ==
    [state |-> "Loading", slot |-> <<>>,
     touches |-> [i \in SlotIndex |-> TouchDefault],
     buttons |-> [left |-> FALSE, right |-> FALSE, middle |-> FALSE]]

\* every slot goes back to TouchData::default()
reset_to_default(m) ==
    [m EXCEPT !.state = "Loading", !.slot = <<>>,
              !.touches = [i \in SlotIndex |-> TouchDefault]]

reset(m) ==
    [m EXCEPT !.state = "Loading", !.slot = <<>>,
              !.touches = [i \in SlotIndex |-> [m.touches[i] EXCEPT !.used = FALSE]]]

\* the tap flags go to the current slot
on_key_current_slot(m, code, value) ==
    CASE code = "BTN_TOUCH" ->
            [m EXCEPT !.touches[IF m.slot = <<>> THEN 0 ELSE m.slot[1]].pressed = (value = 1)]
      [] code = "BTN_TOOL_DOUBLETAP" ->
            [m EXCEPT !.touches[IF m.slot = <<>> THEN 0 ELSE m.slot[1]].pressed_double = (value = 1)]
      [] code = "BTN_LEFT" -> [m EXCEPT !.buttons.left = (value = 1)]
      [] code = "BTN_RIGHT" -> [m EXCEPT !.buttons.right = (value = 1)]
      [] code = "BTN_MIDDLE" -> [m EXCEPT !.buttons.middle = (value = 1)]
      [] OTHER -> m

\* the EventType::KEY arm
on_key(m, code, value) ==
    CASE code = "BTN_TOUCH" -> [m EXCEPT !.touches[0].pressed = (value = 1)]
      [] code = "BTN_TOOL_DOUBLETAP" -> [m EXCEPT !.touches[0].pressed_double = (value = 1)]
      [] code = "BTN_LEFT" -> [m EXCEPT !.buttons.left = (value = 1)]
      [] code = "BTN_RIGHT" -> [m EXCEPT !.buttons.right = (value = 1)]
      [] code = "BTN_MIDDLE" -> [m EXCEPT !.buttons.middle = (value = 1)]
      [] OTHER -> m

\* the index is taken as it comes
on_slot_unchecked(m, value) ==
    [m EXCEPT !.slot = <<value>>,
              !.touches = [i \in SlotIndex |->
                              IF i = value THEN [m.touches[i] EXCEPT !.used = TRUE]
                              ELSE m.touches[i]]]

\* only the upper end of the index is tested
on_slot_upper_bound_only(m, value) ==
    IF value < MAX_TOUCH_POINTS
    THEN [m EXCEPT !.slot = <<value>>,
                   !.touches = [i \in SlotIndex |->
                                   IF i = value THEN [m.touches[i] EXCEPT !.used = TRUE]
                                   ELSE m.touches[i]]]
    ELSE m

\* ABS_MT_SLOT
on_slot(m, value) ==
    IF value >= 0 /\ value < MAX_TOUCH_POINTS
    THEN [m EXCEPT !.slot = <<value>>, !.touches[value].used = TRUE]
    ELSE m

\* a lift clears used and stores the negative id as well
on_tracking_id_stores_lift(touch, value) ==
    IF value < 0 THEN [touch EXCEPT !.used = FALSE, !.tracking_id = value]
    ELSE [touch EXCEPT !.tracking_id = value]

\* a new identity also marks the slot used
on_tracking_id_marks_used(touch, value) ==
    IF value < 0 THEN [touch EXCEPT !.used = FALSE]
    ELSE [touch EXCEPT !.tracking_id = value, !.used = TRUE]

\* a negative tracking id is stored like any other and the slot stays used
on_tracking_id_no_lift(touch, value) == [touch EXCEPT !.tracking_id = value]

\* ABS_MT_TRACKING_ID on the current slot's record
on_tracking_id(touch, value) ==
    IF value < 0 THEN [touch EXCEPT !.used = FALSE]
    ELSE [touch EXCEPT !.tracking_id = value]

\* the field a per-contact axis code is stored in
AxisField ==
    [ABS_MT_POSITION_X |-> "position_x", ABS_MT_POSITION_Y |-> "position_y",
     ABS_MT_PRESSURE |-> "pressure", ABS_MT_DISTANCE |-> "distance",
     ABS_MT_TOUCH_MAJOR |-> "touch_major", ABS_MT_TOUCH_MINOR |-> "touch_minor",
     ABS_MT_WIDTH_MAJOR |-> "width_major", ABS_MT_WIDTH_MINOR |-> "width_minor",
     ABS_MT_ORIENTATION |-> "orientation", ABS_MT_TOOL_X |-> "tool_x",
     ABS_MT_TOOL_Y |-> "tool_y", ABS_MT_TOOL_TYPE |-> "tool_type"]

\* the value is stored and the used flag is left as it was
on_axis_store_only(touch, field, value) == [touch EXCEPT ![field] = value]

\* set_used() and the store of a per-contact axis value
on_axis(touch, field, value) == [touch EXCEPT !.used = TRUE, ![field] = value]

\* the first axis event after a sync asks for a reset
on_abs_frame_start(m0, code, value) ==
    IF m0.state = "ReadReady" THEN [m0 EXCEPT !.state = "NeedsReset"]
    ELSE IF m0.state = "NeedsReset" THEN [m0 EXCEPT !.state = "Loading"]
    ELSE m0

\* without a selected slot, tracking-id and axis events go nowhere
on_abs_needs_selection(m, code, value) ==
    IF code = "ABS_MT_SLOT" THEN on_slot(m, value)
    ELSE IF m.slot = <<>> THEN m
    ELSE IF code = "ABS_MT_TRACKING_ID"
    THEN [m EXCEPT !.touches[m.slot[1]] = on_tracking_id(@, value)]
    ELSE IF code \in DOMAIN AxisField
    THEN [m EXCEPT !.touches[m.slot[1]] = on_axis(@, AxisField[code], value)]
    ELSE m

\* the EventType::ABSOLUTE arm
on_abs(m0, code, value) ==
    LET m == IF m0.state = "NeedsReset" THEN reset(m0) ELSE m0
        slot == IF m.slot = <<>> THEN 0 ELSE m.slot[1]
    IN  IF code = "ABS_MT_SLOT" THEN on_slot(m, value)
        ELSE IF code = "ABS_MT_TRACKING_ID"
        THEN [m EXCEPT !.touches[slot] = on_tracking_id(@, value)]
        ELSE IF code \in DOMAIN AxisField
        THEN [m EXCEPT !.touches[slot] = on_axis(@, AxisField[code], value)]
        ELSE m

\* MTStateMachine::process; an event is [type, code, value]
process(m, event) ==
    CASE event.type = "KEY" -> on_key(m, event.code, event.value)
      [] event.type = "ABSOLUTE" -> on_abs(m, event.code, event.value)
      [] event.type = "MISC" -> m
      [] event.type = "SYNCHRONIZATION" -> [m EXCEPT !.state = "ReadReady"]
      [] OTHER -> m

is_read_ready(m) == m.state = "ReadReady"

Ev(type, code, value) == [type |-> type, code |-> code, value |-> value]

\* ---- the machine fed arbitrary events, with the canned round trip watched
\* feed follows the last events processed: phase k means that the last k
\* events were the first k of
\*   slot-select s, tracking-id t >= 0, position x, position y, sync,
\*   slot-select s, tracking-id < 0, sync
\* (key events after the second slot-select do not break the sequence).

RoundTripEvents ==
    {Ev("ABSOLUTE", "ABS_MT_SLOT", v) : v \in {-1, 0, 3, 10}}
    \cup {Ev("ABSOLUTE", "ABS_MT_TRACKING_ID", v) : v \in {-1, 5}}
    \cup {Ev("ABSOLUTE", "ABS_MT_POSITION_X", v) : v \in {100, 150}}
    \cup {Ev("ABSOLUTE", "ABS_MT_POSITION_Y", 200), Ev("ABSOLUTE", "ABS_MT_PRESSURE", 30),
          Ev("SYNCHRONIZATION", "SYN_REPORT", 0), Ev("KEY", "BTN_LEFT", 1)}

FeedStart == [phase |-> 0, s |-> 0, t |-> 0, x |-> 0, y |-> 0]

IsSlotSelect(e) ==
    e.type = "ABSOLUTE" /\ e.code = "ABS_MT_SLOT" /\ e.value \in SlotIndex

IsAbs(e, code) == e.type = "ABSOLUTE" /\ e.code = code

Follow(f, e) ==
    IF f.phase \in {0, 8} \/ (f.phase # 5 /\ IsSlotSelect(e))
    THEN (IF IsSlotSelect(e) THEN [FeedStart EXCEPT !.phase = 1, !.s = e.value] ELSE FeedStart)
    ELSE IF f.phase = 1 /\ IsAbs(e, "ABS_MT_TRACKING_ID") /\ e.value >= 0
    THEN [f EXCEPT !.phase = 2, !.t = e.value]
    ELSE IF f.phase = 2 /\ IsAbs(e, "ABS_MT_POSITION_X")
    THEN [f EXCEPT !.phase = 3, !.x = e.value]
    ELSE IF f.phase = 3 /\ IsAbs(e, "ABS_MT_POSITION_Y")
    THEN [f EXCEPT !.phase = 4, !.y = e.value]
    ELSE IF f.phase = 4 /\ e.type = "SYNCHRONIZATION"
    THEN [f EXCEPT !.phase = 5]
    ELSE IF f.phase = 5 /\ IsSlotSelect(e)
    THEN (IF e.value = f.s THEN [f EXCEPT !.phase = 6]
          ELSE [FeedStart EXCEPT !.phase = 1, !.s = e.value])
    ELSE IF f.phase = 6 /\ IsAbs(e, "ABS_MT_TRACKING_ID") /\ e.value < 0
    THEN [f EXCEPT !.phase = 7]
    ELSE IF f.phase = 6 /\ IsAbs(e, "ABS_MT_TRACKING_ID")
    THEN [FeedStart EXCEPT !.phase = 2, !.s = f.s, !.t = e.value]
    ELSE IF f.phase = 7 /\ e.type = "SYNCHRONIZATION"
    THEN [f EXCEPT !.phase = 8]
    ELSE IF f.phase \in {6, 7} /\ e.type = "KEY"
    THEN f
    ELSE FeedStart

HeatQuiet == io = <<>> /\ hm = [pc |-> "none", fn |-> "none"] /\ sent = <<>>

InitRoundTrip ==
    /\ mt = MTNew
    /\ feed = FeedStart
    /\ HeatQuiet

ProcessEvent ==
    /\ \E e \in RoundTripEvents :
          /\ mt' = process(mt, e)
          /\ feed' = Follow(feed, e)
    /\ UNCHANGED <<io, hm, sent>>

NextRoundTrip == ProcessEvent

SpecRoundTrip == InitRoundTrip /\ [][NextRoundTrip]_vars

\* C6: after slot-select s, a non-negative tracking-id t, position events
\* (x, y) and a sync, slot s has used = true, tracking_id = t and position
\* (x, y); after a following slot-select s, a negative tracking-id and a sync
\* with no axis event in between, slot s has used = false.
C6_RoundTrip ==
    /\ feed.phase = 5 =>
          /\ mt.touches[feed.s].used
          /\ mt.touches[feed.s].tracking_id = feed.t
          /\ mt.touches[feed.s].position_x = feed.x
          /\ mt.touches[feed.s].position_y = feed.y
          /\ is_read_ready(mt)
    /\ feed.phase = 8 => ~mt.touches[feed.s].used

C6_Witness ==
    /\ feed.phase = 8
    /\ feed.s = 3 /\ feed.t = 5 /\ feed.x = 150 /\ feed.y = 200
    /\ ~mt.touches[3].used
    /\ mt.touches[3].tracking_id = 5
    /\ mt.touches[3].position_x = 150

\* ---- get_feature on its own, both platform implementations side by side
\* One device (a burst stream with the given reply lengths, or a register
\* behind report 0x42) answers one get_feature call into a buffer of buf_len
\* bytes; io is what HidrawDevice::get_feature leaves, hm.win what
\* WinHidDevice::get_feature leaves for the same device response.

InitGetFeature ==
    /\ \E replies \in ReplySeqs, buf_len \in 1..(MaxReportLen + 1),
          id \in {REPORT_BURST, REPORT_SINGLE}, v \in {0, 7} :
          /\ io = NewIo([Device((<<REPORT_SINGLE, 0, 1>> :> v), replies, 0, 1)
                           EXCEPT !.sel = <<REPORT_SINGLE, 0, 1>>], {}, "release")
          /\ hm = [pc |-> "call", fn |-> "get_feature", buf_len |-> buf_len, id |-> id,
                   win |-> <<>>]
    /\ sent = <<>>
    /\ MtQuiet

CallGetFeature ==
    /\ hm.pc = "call"
    /\ hm.fn = "get_feature"
    /\ \E fail \in FailSets(1) :
          LET buf == [j \in 1..hm.buf_len |-> IF j = 1 THEN hm.id ELSE 0]
          IN  /\ io' = get_feature(NewIo(io.dev, fail, io.build), buf)
              /\ hm' = [hm EXCEPT !.pc = "returned",
                                  !.win = windows_get_feature(NewIo(io.dev, fail, io.build), buf)]
    /\ UNCHANGED <<sent, mt, feed>>

NextGetFeature == CallGetFeature

SpecGetFeature == InitGetFeature /\ [][NextGetFeature]_vars

GetFeatureReturned == hm.fn = "get_feature" /\ hm.pc = "returned"

\* C11: on success both implementations of get_feature return the number of
\* bytes the device populated (report ID byte included), so for the same
\* device response the caller sees the same result from either.
C11_SameResultOnBothPlatforms ==
    (GetFeatureReturned /\ io.st = "ok" /\ hm.win.st = "ok") =>
        /\ hm.win.buf = io.buf
        /\ hm.win.val = io.val

\* ---- the acquisition thread: start-up failures

SetupFailures ==
    {"failed to open", "failed to identify chip", "failed to read matrix dimensions"}

SetupFailed == hm.fn = "thread" /\ hm.exit \in SetupFailures

\* a logged set_feature that is a register write: the bank byte has no READ_FLAG
IsRegisterWrite(o) == o.op = "set" /\ (o.buf[3] \div READ_FLAG) % 2 = 0

\* C12: when opening the device, identifying the chip or reading the matrix
\* dimensions fails, the thread has exited, nothing was sent, no register write
\* of a frame acquisition was issued, and the thread takes no further step (no
\* retry): the consumer only sees the channel close.
C12_SetupFailureIsFatal ==
    /\ [](SetupFailed =>
            /\ hm.pc = "exited"
            /\ sent = <<>>
            /\ \A i \in 1..Len(io.ops) : ~IsRegisterWrite(io.ops[i]))
    /\ [][SetupFailed => UNCHANGED vars]_vars

C12_Witness ==
    /\ SetupFailed
    /\ hm.exit = "failed to read matrix dimensions"
    /\ hm.chip = "PJP255"
    /\ hm.pc = "exited"
    /\ Len(io.ops) = 3
    /\ ~io.ops[3].ok

\* ---- the acquisition loop in steady state, with the UI thread
\* The loop of spawn_heatmap_thread runs next to TapviewApp::update, which
\* sends ALC commands at any moment.  The loop's thread is followed statement
\* by statement: one try_recv of the drain (pc = "drain"), then read_frame with
\* the rest of the iteration (pc = "read").  io is the device log of the
\* current iteration.  alc_sent and alc_applied record every command sent and
\* every command taken off the channel, in order.

\* what ends an iteration: the match on read_frame and the result of tx.send
loop_outcome_stop_after_frame(r, f, rx_alive) ==
    IF r.st = "err" THEN "frame read error"
    ELSE IF r.st = "hang" THEN "hang"
    ELSE IF r.st = "panic" \/ f.st = "panic" THEN "panic"
    ELSE "receiver dropped"

loop_outcome(r, f, rx_alive) ==
    IF r.st = "err" THEN "frame read error"
    ELSE IF r.st = "hang" THEN "hang"
    ELSE IF r.st = "panic" \/ f.st = "panic" THEN "panic"
    ELSE IF rx_alive THEN "continue"
    ELSE "receiver dropped"

\* the thread at the head of its loop, with the UI's ALC state
ThreadLooping(chip, rows, cols, burst_len, cols_override) ==
    [pc |-> "drain", fn |-> "thread", burst_len |-> burst_len,
     cols_override |-> cols_override, chip |-> chip, rows |-> rows, cols |-> cols,
     display_cols |-> display_cols_of(cols_override, cols), loop |-> FreshLoop,
     cmd_rx |-> <<>>, rx_alive |-> TRUE, exit |-> "none",
     iter_start |-> TRUE, alc_enabled |-> TRUE, alc_sent |-> <<>>, alc_applied |-> <<>>]

InitAlc ==
    /\ \E chip \in ChipVariant, rows \in 1..2, cols \in {1},
          cols_override \in {<<>>, <<0>>} :
          /\ io = NewIo(HeatFixture(chip, rows, cols, 2), {}, "release")
          /\ hm = ThreadLooping(chip, rows, cols, 2, cols_override)
    /\ sent = <<>>
    /\ MtQuiet

\* TapviewApp::update with key R and/or key A pressed: Reset, then the toggle
SendAlc ==
    /\ hm.fn = "thread" /\ hm.pc \in {"drain", "read"}
    /\ Len(hm.alc_sent) < MaxAlcSends
    /\ \E key_r \in BOOLEAN, key_a \in BOOLEAN :
          /\ key_r \/ key_a
          /\ LET cmds == (IF key_r THEN <<"Reset">> ELSE <<>>)
                         \o (IF key_a
                             THEN <<IF hm.alc_enabled THEN "Disable" ELSE "Enable">>
                             ELSE <<>>)
             IN  hm' = [hm EXCEPT !.cmd_rx = @ \o cmds,
                                  !.alc_sent = @ \o cmds,
                                  !.alc_enabled = IF key_a THEN ~@ ELSE @]
    /\ UNCHANGED <<io, sent, mt, feed>>

\* at most one command is taken per iteration
TryRecv_one_per_iteration ==
    /\ hm.fn = "thread" /\ hm.pc = "drain"
    /\ hm.loop.frame_count < MaxHeatFrames
    /\ \E base \in {IF hm.iter_start THEN NewIo(io.dev, {}, io.build) ELSE io} :
          IF hm.cmd_rx # <<>>
          THEN \E rejected \in BOOLEAN :
                  /\ io' = Ignored(alc_access(
                              [base EXCEPT !.fail = IF rejected THEN {Len(base.ops) + 1} ELSE {}],
                              hm.chip, AlcCode(Head(hm.cmd_rx))))
                  /\ hm' = [hm EXCEPT !.cmd_rx = Tail(@),
                                      !.alc_applied = Append(@, Head(hm.cmd_rx)),
                                      !.iter_start = FALSE,
                                      !.pc = "read"]
          ELSE /\ io' = base
               /\ hm' = [hm EXCEPT !.pc = "read", !.iter_start = FALSE]
    /\ UNCHANGED <<sent, mt, feed>>

\* a failed ALC command breaks out of the loop
TryRecv_failure_breaks ==
    /\ hm.fn = "thread" /\ hm.pc = "drain"
    /\ hm.loop.frame_count < MaxHeatFrames
    /\ \E base \in {IF hm.iter_start THEN NewIo(io.dev, {}, io.build) ELSE io} :
          IF hm.cmd_rx # <<>>
          THEN \E rejected \in BOOLEAN :
                  /\ io' = Ignored(alc_access(
                              [base EXCEPT !.fail = IF rejected THEN {Len(base.ops) + 1} ELSE {}],
                              hm.chip, AlcCode(Head(hm.cmd_rx))))
                  /\ hm' = [hm EXCEPT !.cmd_rx = Tail(@),
                                      !.alc_applied = Append(@, Head(hm.cmd_rx)),
                                      !.iter_start = FALSE,
                                      !.pc = IF rejected THEN "exited" ELSE @,
                                      !.exit = IF rejected THEN "ALC command failed" ELSE @]
          ELSE /\ io' = base
               /\ hm' = [hm EXCEPT !.pc = "read", !.iter_start = FALSE]
    /\ UNCHANGED <<sent, mt, feed>>

\* one cmd_rx.try_recv() of the drain: a command is applied (a failure is
\* logged and ignored), an empty channel ends the drain
TryRecv ==
    /\ hm.fn = "thread" /\ hm.pc = "drain"
    /\ hm.loop.frame_count < MaxHeatFrames
    /\ \E base \in {IF hm.iter_start THEN NewIo(io.dev, {}, io.build) ELSE io} :
          IF hm.cmd_rx # <<>>
          THEN \E rejected \in BOOLEAN :
                  /\ io' = Ignored(alc_access(
                              [base EXCEPT !.fail = IF rejected THEN {Len(base.ops) + 1} ELSE {}],
                              hm.chip, AlcCode(Head(hm.cmd_rx))))
                  /\ hm' = [hm EXCEPT !.cmd_rx = Tail(@),
                                      !.alc_applied = Append(@, Head(hm.cmd_rx)),
                                      !.iter_start = FALSE]
          ELSE /\ io' = base
               /\ hm' = [hm EXCEPT !.pc = "read", !.iter_start = FALSE]
    /\ UNCHANGED <<sent, mt, feed>>

\* read_frame and the rest of the iteration: the drift detector and tx.send
ReadFrameAndSend ==
    /\ hm.fn = "thread" /\ hm.pc = "read"
    /\ \E k \in 0..Len(read_frame(NewIo(io.dev, {}, io.build),
                                  hm.chip, hm.rows, hm.cols, hm.burst_len).ops) :
       \E r \in {read_frame([io EXCEPT !.fail = IF k = 0 THEN {} ELSE {Len(io.ops) + k}],
                            hm.chip, hm.rows, hm.cols, hm.burst_len)} :
       \E f \in {frame_ok(hm.loop, r.data, hm.display_cols)} :
       \E outcome \in {loop_outcome(r, f, hm.rx_alive)} :
          /\ io' = r
          /\ hm' = CASE outcome = "continue" ->
                          [hm EXCEPT !.pc = "drain", !.iter_start = TRUE, !.loop = f.L]
                     [] outcome = "receiver dropped" ->
                          [hm EXCEPT !.pc = "exited", !.exit = outcome, !.loop = f.L]
                     [] outcome = "frame read error" ->
                          [hm EXCEPT !.pc = "exited", !.exit = outcome]
                     [] outcome = "panic" -> [hm EXCEPT !.pc = "panicked"]
                     [] outcome = "hang" -> [hm EXCEPT !.pc = "hung"]
          /\ sent' = IF outcome = "continue" THEN Append(sent, f.frame) ELSE sent
    /\ UNCHANGED <<mt, feed>>

NextAlc == SendAlc \/ TryRecv \/ ReadFrameAndSend \/ DropReceiver

SpecAlc == InitAlc /\ [][NextAlc]_vars

LoopRunning == hm.fn = "thread" /\ hm.pc \in {"drain", "read"}

\* tx.send(frame) returned Err: the receiver was gone when the frame was sent
SendFailed == ~hm.rx_alive /\ hm'.exit = "receiver dropped" /\ io'.st = "ok"

\* C13 as stated: in steady state the loop exits only when sending a frame to
\* the consumer fails; no other event ends it.
C13_OnlySendFailureEndsLoop ==
    [][(LoopRunning /\ hm'.pc = "exited") => SendFailed]_vars

\* C13 as amended: in steady state the loop ends only when sending a frame
\* fails or when read_frame returns an error (the Err arm breaks as well); a
\* failed ALC command and a queued command never end it.  Besides these two
\* exits the thread can only die in a panic of the iteration (display_cols of
\* zero, or an arithmetic overflow inside read_frame).
C13_LoopEndsOnSendFailureOrReadError ==
    [][(LoopRunning /\ hm'.pc \in {"exited", "panicked"}) =>
          /\ hm.pc = "read"
          /\ \/ hm'.pc = "exited" /\ SendFailed
             \/ hm'.pc = "exited" /\ hm'.exit = "frame read error" /\ io'.st = "err"
                /\ sent' = sent
             \/ hm'.pc = "panicked" /\ (io'.st = "panic" \/ hm.display_cols = 0)]_vars

C13_Witness ==
    /\ hm.fn = "thread" /\ hm.pc = "exited"
    /\ hm.exit = "frame read error"
    /\ hm.rx_alive
    /\ hm.loop.frame_count = 1
    /\ Len(sent) = 1
    /\ io.st = "err"
    /\ \E i \in 1..Len(io.ops) : io.ops[i].op = "alc" /\ ~io.ops[i].ok

\* the i-th call of the iteration's log is an ALC register access that failed
FailedAlcAt(ops, i) == ops[i].op = "alc" /\ ~ops[i].ok

\* the step just taken applied a command whose register access failed
AlcFailedStep ==
    /\ hm.fn = "thread" /\ hm.pc = "drain"
    /\ hm'.alc_applied # hm.alc_applied
    /\ FailedAlcAt(io'.ops, Len(io'.ops))

\* the thread is past the read_frame of the iteration io logs
IterationRead ==
    /\ hm.fn = "thread"
    /\ \/ hm.pc \in {"exited", "panicked", "hung"}
       \/ hm.pc = "drain" /\ hm.iter_start /\ hm.loop.frame_count > 0

\* C14: a failed ALC register write does not end the loop: the thread stays
\* in the drain with the rest of the queue, it leaves the drain only on an
\* empty channel and only into read_frame, and the log of every iteration has
\* read_frame's first register write after each failed ALC access.
C14_AlcFailureNotFatal ==
    /\ [][AlcFailedStep =>
            /\ hm'.pc = "drain"
            /\ hm'.cmd_rx = Tail(hm.cmd_rx)
            /\ sent' = sent]_vars
    /\ [][(hm.fn = "thread" /\ hm.pc = "drain" /\ hm'.pc # "drain") =>
            hm.cmd_rx = <<>> /\ hm'.pc = "read"]_vars
    /\ [](IterationRead =>
            \A i \in 1..Len(io.ops) :
                FailedAlcAt(io.ops, i) =>
                    \E j \in (i + 1)..Len(io.ops) : io.ops[j].op = "set")

C14_Witness ==
    /\ hm.fn = "thread" /\ hm.pc = "drain" /\ hm.iter_start
    /\ Len(sent) = 1
    /\ Len(io.ops) >= 3
    /\ FailedAlcAt(io.ops, 1)
    /\ io.ops[2].op = "alc" /\ io.ops[2].ok
    /\ io.ops[3].op = "set"
    /\ io.st = "ok"

\* the codes of the ALC accesses in a log, in order
AlcCodesIn(ops) ==
    LET idx == {i \in 1..Len(ops) : ops[i].op = "alc"}
    IN  [k \in 1..Cardinality(idx) |->
            ops[CHOOSE i \in idx : Cardinality({j \in idx : j <= i}) = k].buf[1]]

\* the last n entries of a sequence
LastN(q, n) == SubSeq(q, Len(q) - n + 1, Len(q))

\* C15: every command sent is taken off the channel exactly once and in
\* order; the drain ends only when every command queued so far has been
\* applied, before read_frame starts; and in the log of an iteration every ALC
\* access precedes every call of the frame acquisition, whenever the UI
\* thread sends.
C15_AlcSerializedWithFrames ==
    /\ [](hm.fn = "thread" =>
            /\ hm.alc_applied \o hm.cmd_rx = hm.alc_sent
            /\ \A i \in 1..Len(io.ops) : \A j \in (i + 1)..Len(io.ops) :
                  io.ops[j].op = "alc" => io.ops[i].op = "alc"
            /\ (~hm.iter_start /\ Len(AlcCodesIn(io.ops)) <= Len(hm.alc_applied)) =>
                  AlcCodesIn(io.ops) =
                      [k \in 1..Len(AlcCodesIn(io.ops)) |->
                          AlcCode(LastN(hm.alc_applied, Len(AlcCodesIn(io.ops)))[k])]
            /\ ~hm.iter_start => Len(AlcCodesIn(io.ops)) <= Len(hm.alc_applied))
    /\ [][(hm.fn = "thread" /\ hm.pc = "drain" /\ hm'.pc = "read") =>
            /\ hm.alc_applied = hm.alc_sent
            /\ hm'.cmd_rx = <<>>
            /\ \A i \in 1..Len(io'.ops) : io'.ops[i].op = "alc"]_vars

C15_Witness ==
    /\ hm.fn = "thread" /\ hm.pc = "drain" /\ hm.iter_start
    /\ Len(sent) = 1
    /\ hm.alc_sent = <<"Disable", "Reset", "Enable">>
    /\ hm.alc_applied = <<"Disable">>
    /\ hm.cmd_rx = <<"Reset", "Enable">>
    /\ AlcCodesIn(io.ops) = <<3>>
    /\ Len(io.ops) > 1

\* ------------------------------------------ burst-length descriptor parser
\* parse_report_descriptor_for_burst_len: an Option is <<>> or <<v>>.

\* the size of a short item's data from its prefix: prefix & 0x03, 3 means 4
short_item_size(prefix) ==
    CASE BitAnd(prefix, 3) = 0 -> 0
      [] BitAnd(prefix, 3) = 1 -> 1
      [] BitAnd(prefix, 3) = 2 -> 2
      [] BitAnd(prefix, 3) = 3 -> 4

\* a long item is stepped over by its header alone
long_item_len_header_only(data_size) == 3

\* i += 3 + data_size
long_item_len(data_size) == 3 + data_size

\* the count of a Report Count item: u8, u16 or u32 little endian, else 0
report_count_of(size, data) ==
    CASE size = 1 -> data[1]
      [] size = 2 -> data[1] + 256 * data[2]
      [] size = 4 -> data[1] + 256 * data[2] + 65536 * data[3] + 16777216 * data[4]
      [] OTHER -> 0

\* the locals of the parser before its loop; i is the 0-based index, ret the
\* returned Option once done, iters the loop iterations made. path is the
\* value of i at the start of every iteration, reads the 0-based indices of
\* desc the parser has read (or tried to read), panicked whether an index or a
\* slice range was out of bounds
ParserStart ==
    [i |-> 0, current_report_id |-> <<>>, current_report_count |-> <<>>,
     done |-> FALSE, ret |-> <<>>, iters |-> 0,
     path |-> <<>>, reads |-> {}, panicked |-> FALSE]

\* a short item is tested for its prefix byte only
short_item_cut_prefix_only(i, size, len) == i + 1 > len

\* if i + 2 >= desc.len() { break; }
long_item_cut(i, len) == i + 2 >= len

\* if i + 1 + size > desc.len() { break; }
short_item_cut(i, size, len) == i + 1 + size > len

\* one iteration of the while loop (i < desc.len() holds)
parse_iteration(desc, s) ==
    LET i == s.i
        prefix == desc[i + 1]
        n == [s EXCEPT !.iters = @ + 1, !.path = Append(@, i), !.reads = @ \cup {i}]
    IN  IF prefix = 254                                             \* 0xFE
        THEN IF long_item_cut(i, Len(desc))
             THEN [n EXCEPT !.done = TRUE]                           \* break
             ELSE IF i + 1 >= Len(desc)                              \* desc[i + 1]
             THEN [n EXCEPT !.done = TRUE, !.panicked = TRUE, !.reads = @ \cup {i + 1}]
             ELSE [n EXCEPT !.i = i + long_item_len(desc[i + 2]),    \* continue
                            !.reads = @ \cup {i + 1}]
        ELSE
          LET size == short_item_size(prefix)
          IN  IF short_item_cut(i, size, Len(desc))
              THEN [n EXCEPT !.done = TRUE]                          \* break
              ELSE IF i + 1 + size > Len(desc)                       \* &desc[i + 1..i + 1 + size]
              THEN [n EXCEPT !.done = TRUE, !.panicked = TRUE,
                             !.reads = @ \cup ((i + 1)..(i + size))]
              ELSE
                LET tag == BitAnd(prefix, 252)                       \* 0xFC
                    data == SubSeq(desc, i + 2, i + 1 + size)
                    r == [n EXCEPT !.reads = @ \cup ((i + 1)..(i + size))]
                IN  CASE tag = 132 ->                                \* 0x84
                           [r EXCEPT !.i = i + 1 + size,
                                     !.current_report_id = IF data # <<>> THEN <<data[1]>> ELSE @]
                      [] tag = 148 ->                                \* 0x94
                           [r EXCEPT !.i = i + 1 + size,
                                     !.current_report_count = <<report_count_of(size, data)>>]
                      [] tag = 176 /\ s.current_report_id = <<REPORT_BURST>>
                                   /\ s.current_report_count # <<>> ->       \* 0xB0
                           [r EXCEPT !.done = TRUE, !.ret = s.current_report_count]
                      [] OTHER -> [r EXCEPT !.i = i + 1 + size]

\* while i < desc.len() { ... } None
RECURSIVE parse_loop(_, _)
parse_loop(desc, s) ==
    IF s.done \/ ~(s.i < Len(desc)) THEN [s EXCEPT !.done = TRUE]
    ELSE Returned({parse_loop(desc, t) : t \in {parse_iteration(desc, s)}})

parse_report_descriptor_for_burst_len(desc) == parse_loop(desc, ParserStart)

\* ---- the parser on its own
\* A descriptor is a run of complete items followed by a tail that may be
\* an incomplete item.

\* complete items: Report ID 0x41 and 0x01, a Report ID without data, Report
\* Counts of 1, 2, 4 and 0 bytes, a Feature item, a Usage item, and a long
\* item whose data looks like a Feature item
DescItems ==
    { <<133, 65>>, <<133, 1>>, <<132>>,
      <<149, 2>>, <<150, 1, 1>>, <<151, 3, 0, 0, 0>>, <<148>>,
      <<177, 2>>, <<9, 1>>,
      <<254, 1, 0, 176>> }

\* tails: nothing, a cut-off long item, a long item running past the end and
\* a cut-off Feature item
DescTails == { <<>>, <<254, 0>>, <<254, 9, 0>>, <<177>> }

RECURSIVE Concat(_)
Concat(qs) == IF qs = <<>> THEN <<>> ELSE Head(qs) \o Concat(Tail(qs))

InitParse ==
    /\ \E n \in 0..MaxDescItems : \E items \in [1..n -> DescItems], tail \in DescTails :
          hm = [pc |-> "call", fn |-> "parse", items |-> items, tail |-> tail,
                desc |-> Concat(items) \o tail, parser |-> ParserStart]
    /\ io = <<>>
    /\ sent = <<>>
    /\ MtQuiet

CallParse ==
    /\ hm.fn = "parse" /\ hm.pc = "call"
    /\ hm' = [hm EXCEPT !.pc = "returned",
                        !.parser = parse_report_descriptor_for_burst_len(hm.desc)]
    /\ UNCHANGED <<io, sent, mt, feed>>

NextParse == CallParse

SpecParse == InitParse /\ [][NextParse]_vars

ParseReturned == hm.fn = "parse" /\ hm.pc = "returned"

\* the items of the descriptor as it was put together
IsLong(it) == it[1] = 254
TagOf(it) == it[1] - (it[1] % 4)
IsReportId(it) == ~IsLong(it) /\ TagOf(it) = 132 /\ Len(it) > 1
IsReportCount(it) == ~IsLong(it) /\ TagOf(it) = 148
IsFeature(it) == ~IsLong(it) /\ TagOf(it) = 176

\* the little-endian value of an item's data bytes
RECURSIVE LeValue(_)
LeValue(bytes) == IF bytes = <<>> THEN 0 ELSE Head(bytes) + 256 * LeValue(Tail(bytes))

SetMax(S) == CHOOSE m \in S : \A x \in S : x <= m
SetMin(S) == CHOOSE m \in S : \A x \in S : m <= x

\* the most recent Report ID / Report Count before item k, as an Option
IdBefore(items, k) ==
    LET S == {j \in 1..(k - 1) : IsReportId(items[j])}
    IN  IF S = {} THEN <<>> ELSE <<items[SetMax(S)][2]>>

CountBefore(items, k) ==
    LET S == {j \in 1..(k - 1) : IsReportCount(items[j])}
    IN  IF S = {} THEN <<>> ELSE <<LeValue(Tail(items[SetMax(S)]))>>

\* the Feature items met while the report ID is 0x41 and a count is pending
BurstFeatures(items) ==
    {k \in 1..Len(items) :
        IsFeature(items[k]) /\ IdBefore(items, k) = <<65>> /\ CountBefore(items, k) # <<>>}

\* C16: the parser returns the most recent Report Count at the first Feature
\* item met while the most recent Report ID is 0x41 (long items, whatever
\* their data, are stepped over whole), and None when there is no such
\* Feature item.
C16_ParserReturnsBurstCount ==
    ParseReturned =>
        /\ hm.parser.done
        /\ hm.parser.ret =
              IF BurstFeatures(hm.items) = {} THEN <<>>
              ELSE CountBefore(hm.items, SetMin(BurstFeatures(hm.items)))

C16_Witness ==
    /\ ParseReturned
    /\ hm.items = <<<<133, 65>>, <<150, 1, 1>>, <<254, 1, 0, 176>>, <<177, 2>>>>
    /\ hm.parser.ret = <<257>>
    /\ hm.parser.iters = 4

\* ---- read_matrix_dims on its own
\* The fixture holds all six dimension registers, each pair with values of
\* its own, so that a read of the wrong family's register shows.

DimValues == {0, 2, 255}

InitDims ==
    /\ \E chip \in ChipVariant, a \in [1..6 -> DimValues] :
          /\ io = NewIo(Device(DimRegs("PJP274", a[1], a[2]) @@ DimRegs("PJP255", a[3], a[4])
                                  @@ DimRegs("PLP239", a[5], a[6]),
                               <<2>>, 0, 1), {}, "release")
          /\ hm = [pc |-> "call", fn |-> "read_matrix_dims", chip |-> chip]
    /\ sent = <<>>
    /\ MtQuiet

CallReadMatrixDims ==
    /\ hm.pc = "call"
    /\ hm.fn = "read_matrix_dims"
    /\ \E fail \in FailSets(4) : io' = read_matrix_dims(NewIo(io.dev, fail, io.build), hm.chip)
    /\ hm' = [hm EXCEPT !.pc = "returned"]
    /\ UNCHANGED <<sent, mt, feed>>

NextDims == CallReadMatrixDims

SpecDims == InitDims /\ [][NextDims]_vars

DimsReturned == hm.fn = "read_matrix_dims" /\ hm.pc = "returned"

\* C17: read_matrix_dims returns (rows, cols) as the user registers 0x6E and
\* 0x6F for Family A, the user registers 0x5A and 0x59 for Family B, and the
\* bank-9 registers 0x01 and 0x02 each plus 1 for Family C (255 gives 256).
C17_MatrixDimsPerFamily ==
    (DimsReturned /\ io.st = "ok") =>
        /\ io.val = <<HwRows, HwCols>>
        /\ io.val[1] \in 0..256 /\ io.val[2] \in 0..256
        /\ hm.chip = "PLP239" =>
              /\ io.val[1] = io.dev.regs[<<66, 9, 1>>] + 1
              /\ io.val[2] = io.dev.regs[<<66, 9, 2>>] + 1
        /\ hm.chip \in {"PJP274", "PJP343"} =>
              io.val = <<io.dev.regs[<<67, 0, 110>>], io.dev.regs[<<67, 0, 111>>]>>
        /\ hm.chip \in {"PJP255", "PJP215"} =>
              io.val = <<io.dev.regs[<<67, 0, 90>>], io.dev.regs[<<67, 0, 89>>]>>

C17_Witness ==
    /\ DimsReturned /\ io.st = "ok"
    /\ hm.chip = "PLP239"
    /\ io.dev.regs[<<66, 9, 1>>] = 255
    /\ io.dev.regs[<<66, 9, 2>>] = 0
    /\ io.val = <<256, 1>>

\* ---- read_reg on its own
\* The fixture holds the register asked for and its neighbour in the next
\* bank; an earlier read request may still be latched.

InitReadReg ==
    /\ \E bank \in {0, 9, 16}, addr \in {1, 120, 255}, v \in {0, 171, 255},
          latched \in {<<0, 0, 0>>, <<REPORT_SINGLE, 1, 2>>} :
          /\ io = NewIo([Device((<<REPORT_SINGLE, bank % 16, addr>> :> v)
                                    @@ (<<REPORT_SINGLE, (bank % 16) + 1, addr>> :> 77)
                                    @@ (<<REPORT_SINGLE, 1, 2>> :> 99),
                                <<2>>, 0, 1)
                           EXCEPT !.sel = latched], {}, "release")
          /\ hm = [pc |-> "call", fn |-> "read_reg", bank |-> bank, addr |-> addr, v |-> v]
    /\ sent = <<>>
    /\ MtQuiet

CallReadReg ==
    /\ hm.pc = "call"
    /\ hm.fn = "read_reg"
    /\ \E fail \in FailSets(2) : io' = read_reg(NewIo(io.dev, fail, io.build), hm.bank, hm.addr)
    /\ hm' = [hm EXCEPT !.pc = "returned"]
    /\ UNCHANGED <<sent, mt, feed>>

NextReadReg == CallReadReg

SpecReadReg == InitReadReg /\ [][NextReadReg]_vars

ReadRegReturned == hm.fn = "read_reg" /\ hm.pc = "returned"

\* bank | 0x10, by arithmetic
WithReadFlag(bank) == IF (bank \div 16) % 2 = 1 THEN bank ELSE bank + 16

\* C18: read_reg(bank, addr) issues exactly one set_feature of
\* [0x42, addr, bank | 0x10, 0], then exactly one get_feature on report 0x42
\* into a 4-byte buffer, and returns byte 3 of the reply; when the
\* set_feature fails no get_feature is issued and its error is the result.
C18_ReadRegSequence ==
    ReadRegReturned =>
        /\ Len(io.ops) \in 1..2
        /\ io.ops[1].op = "set"
        /\ io.ops[1].buf = <<66, hm.addr, WithReadFlag(hm.bank), 0>>
        /\ io.ops[1].ok =>
              /\ Len(io.ops) = 2
              /\ io.ops[2].op = "get" /\ io.ops[2].buf = <<66>> /\ io.ops[2].len = 4
        /\ ~io.ops[1].ok =>
              /\ Len(io.ops) = 1
              /\ io.st = "err"
              /\ io = set_feature(NewIo(io.dev, io.fail, io.build), io.ops[1].buf)
        /\ io.st = "ok" =>
              /\ io.ops[2].ok
              /\ io.val = io.buf[4]
              /\ io.buf = <<66, hm.addr, WithReadFlag(hm.bank), hm.v>>
        /\ io.st = "ok" <=> (\A i \in 1..Len(io.ops) : io.ops[i].ok)

C18_Witness ==
    /\ ReadRegReturned
    /\ hm.bank = 9 /\ hm.addr = 120 /\ hm.v = 171
    /\ io.st = "ok" /\ io.val = 171
    /\ Len(io.ops) = 2

\* ---- the machine fed arbitrary events, one event at a time
\* mt is the machine; hm keeps the machine as it was before the last call of
\* process (prev) and the event of that call (ev).

TouchEvents ==
    {Ev("ABSOLUTE", "ABS_MT_SLOT", v) : v \in {-1, 0, 9, 10}}
    \cup {Ev("ABSOLUTE", "ABS_MT_TRACKING_ID", v) : v \in {-1, 0, 5}}
    \cup {Ev("ABSOLUTE", "ABS_MT_POSITION_X", 100), Ev("SYNCHRONIZATION", "SYN_REPORT", 0),
          Ev("KEY", "BTN_LEFT", 1)}

InitTouch ==
    /\ mt = MTNew
    /\ hm = [pc |-> "none", fn |-> "process", prev |-> MTNew, ev |-> Ev("NONE", "NONE", 0)]
    /\ feed = <<>>
    /\ io = <<>>
    /\ sent = <<>>

\* poll_events: self.machine.process(&event) for the next event fetched
ProcessOne ==
    /\ hm.fn = "process"
    /\ \E e \in TouchEvents :
          /\ mt' = process(mt, e)
          /\ hm' = [hm EXCEPT !.pc = "processed", !.prev = mt, !.ev = e]
    /\ UNCHANGED <<io, sent, feed>>

NextTouch == ProcessOne

SpecTouch == InitTouch /\ [][NextTouch]_vars

Processed(code) ==
    hm.fn = "process" /\ hm.pc = "processed" /\ hm.ev.type = "ABSOLUTE" /\ hm.ev.code = code

\* the slot the event before last left selected: self.slot.unwrap_or(0)
PrevSlot == IF hm.prev.slot = <<>> THEN 0 ELSE hm.prev.slot[1]

\* C19: a slot-select with an index in 0..9 sets the current-slot pointer to
\* the index and marks that slot used; with a negative index or one of 10 or
\* more the pointer and the whole slot table stay as they were.
C19_SlotSelect ==
    Processed("ABS_MT_SLOT") =>
        IF hm.ev.value \in 0..9
        THEN /\ mt.slot = <<hm.ev.value>>
             /\ mt.touches[hm.ev.value].used
        ELSE /\ mt.slot = hm.prev.slot
             /\ mt.touches = hm.prev.touches

C19_Witness ==
    /\ Processed("ABS_MT_SLOT")
    /\ hm.ev.value = 10
    /\ hm.prev.slot = <<9>>
    /\ mt.slot = <<9>>
    /\ mt.touches[9].used /\ mt.touches[0].used

\* C20: a tracking-id event with a negative value clears used on the current
\* slot and leaves its stored tracking_id; with a non-negative value it stores
\* the value as the slot's tracking_id and leaves its used flag.
C20_TrackingId ==
    Processed("ABS_MT_TRACKING_ID") =>
        IF hm.ev.value < 0
        THEN /\ ~mt.touches[PrevSlot].used
             /\ mt.touches[PrevSlot].tracking_id = hm.prev.touches[PrevSlot].tracking_id
        ELSE /\ mt.touches[PrevSlot].tracking_id = hm.ev.value
             /\ mt.touches[PrevSlot].used = hm.prev.touches[PrevSlot].used

C20_Witness ==
    /\ Processed("ABS_MT_TRACKING_ID")
    /\ hm.ev.value = -1
    /\ hm.prev.slot = <<9>>
    /\ hm.prev.touches[9].used /\ hm.prev.touches[9].tracking_id = 5
    /\ ~mt.touches[9].used /\ mt.touches[9].tracking_id = 5

\* ---- the machine fed one kind of per-contact axis event among the others
\* hm.axis is the axis code the behaviour is about; hm.seen holds the slots
\* that got a tracking id, hm.lifted the slots a negative tracking id lifted
\* since the last sync.

AxisValue == 7

AxisEvents(axis) ==
    {Ev("ABSOLUTE", "ABS_MT_SLOT", 9), Ev("ABSOLUTE", "ABS_MT_TRACKING_ID", -1),
     Ev("ABSOLUTE", "ABS_MT_TRACKING_ID", 5), Ev("ABSOLUTE", axis, AxisValue),
     Ev("SYNCHRONIZATION", "SYN_REPORT", 0)}

CurrentSlot(m) == IF m.slot = <<>> THEN 0 ELSE m.slot[1]

InitAxis ==
    /\ mt = MTNew
    /\ \E axis \in DOMAIN AxisField :
          hm = [pc |-> "none", fn |-> "process", prev |-> MTNew,
                ev |-> Ev("NONE", "NONE", 0), axis |-> axis, seen |-> {}, lifted |-> {}]
    /\ feed = <<>>
    /\ io = <<>>
    /\ sent = <<>>

ProcessAxis ==
    /\ hm.fn = "process"
    /\ \E e \in AxisEvents(hm.axis) :
          /\ mt' = process(mt, e)
          /\ hm' = [hm EXCEPT
                !.pc = "processed", !.prev = mt, !.ev = e,
                !.seen = IF IsAbs(e, "ABS_MT_TRACKING_ID") /\ e.value >= 0
                         THEN @ \cup {CurrentSlot(mt)} ELSE @,
                !.lifted = IF e.type = "SYNCHRONIZATION" THEN {}
                           ELSE IF IsAbs(e, "ABS_MT_TRACKING_ID") /\ e.value < 0
                           THEN @ \cup {CurrentSlot(mt)} ELSE @]
    /\ UNCHANGED <<io, sent, feed>>

NextAxis == ProcessAxis

SpecAxis == InitAxis /\ [][NextAxis]_vars

AxisProcessed ==
    hm.pc = "processed" /\ hm.ev.type = "ABSOLUTE" /\ hm.ev.code \in DOMAIN AxisField

\* C21: every per-contact axis event leaves the current slot used, whether or
\* not the slot ever got a tracking id and whether or not a negative tracking
\* id lifted it earlier in the same frame.
C21_AxisEventMarksUsed ==
    AxisProcessed => mt.touches[PrevSlot].used

\* lifted in this frame, then an axis event: used again
C21_Witness ==
    /\ AxisProcessed
    /\ hm.ev.code = "ABS_MT_TOOL_TYPE"
    /\ PrevSlot = 9
    /\ PrevSlot \in hm.lifted
    /\ ~hm.prev.touches[9].used
    /\ mt.touches[9].used

\* ---- the machine fed one kind of button/key event among the others
\* hm.key is the key code the behaviour is about.

KeyCodes == {"BTN_TOUCH", "BTN_TOOL_DOUBLETAP", "BTN_LEFT", "BTN_RIGHT", "BTN_MIDDLE"}

KeyEvents(key) ==
    {Ev("KEY", key, v) : v \in {0, 1, 2}}
    \cup {Ev("ABSOLUTE", "ABS_MT_SLOT", 9), Ev("ABSOLUTE", "ABS_MT_TRACKING_ID", 5),
          Ev("ABSOLUTE", "ABS_MT_POSITION_X", AxisValue),
          Ev("SYNCHRONIZATION", "SYN_REPORT", 0)}

InitKey ==
    /\ mt = MTNew
    /\ \E key \in KeyCodes :
          hm = [pc |-> "none", fn |-> "process", prev |-> MTNew,
                ev |-> Ev("NONE", "NONE", 0), key |-> key]
    /\ feed = <<>>
    /\ io = <<>>
    /\ sent = <<>>

ProcessKey ==
    /\ hm.fn = "process"
    /\ \E e \in KeyEvents(hm.key) :
          /\ mt' = process(mt, e)
          /\ hm' = [hm EXCEPT !.pc = "processed", !.prev = mt, !.ev = e]
    /\ UNCHANGED <<io, sent, feed>>

NextKey == ProcessKey

SpecKey == InitKey /\ [][NextKey]_vars

KeyProcessed == hm.pc = "processed" /\ hm.ev.type = "KEY" /\ hm.ev.code \in KeyCodes

\* the flag a key code stands for, as the machine holds it
KeyFlag(m, code) ==
    CASE code = "BTN_TOUCH" -> m.touches[0].pressed
      [] code = "BTN_TOOL_DOUBLETAP" -> m.touches[0].pressed_double
      [] code = "BTN_LEFT" -> m.buttons.left
      [] code = "BTN_RIGHT" -> m.buttons.right
      [] code = "BTN_MIDDLE" -> m.buttons.middle

\* the flag holds the event's value right after the call, sync or no sync
KeyAppliedAtOnce == KeyFlag(mt, hm.ev.code) = (hm.ev.value = 1)

\* C22 as stated: a button/key event takes effect at once and leaves every
\* entry of the slot table, the current-slot pointer and the machine state
\* unchanged.
C22_KeyEventLeavesSlotTable ==
    KeyProcessed =>
        /\ KeyAppliedAtOnce
        /\ mt.touches = hm.prev.touches
        /\ mt.slot = hm.prev.slot
        /\ mt.state = hm.prev.state

\* the slot table as a key event may leave it: the tap flags are fields of slot 0
TouchesAfterKey(touches, code, value) ==
    CASE code = "BTN_TOUCH" -> [touches EXCEPT ![0].pressed = (value = 1)]
      [] code = "BTN_TOOL_DOUBLETAP" -> [touches EXCEPT ![0].pressed_double = (value = 1)]
      [] OTHER -> touches

\* C22: a button/key event takes effect at once; a left/right/middle button
\* event leaves the whole slot table unchanged, a touch-flag or double-tap-flag
\* event changes nothing of the slot table but pressed or pressed_double of
\* slot 0; the current-slot pointer and the machine state stay as they were.
C22_KeyEventAppliedAtOnce ==
    KeyProcessed =>
        /\ KeyAppliedAtOnce
        /\ mt.touches = TouchesAfterKey(hm.prev.touches, hm.ev.code, hm.ev.value)
        /\ mt.slot = hm.prev.slot
        /\ mt.state = hm.prev.state

\* the touch flag set before any sync, with slot 9 current
C22_Witness ==
    /\ KeyProcessed
    /\ hm.ev = Ev("KEY", "BTN_TOUCH", 1)
    /\ hm.prev.slot = <<9>> /\ hm.prev.touches[9].used
    /\ hm.prev.state = "Loading"
    /\ ~hm.prev.touches[0].pressed
    /\ mt.touches[0].pressed
    /\ mt.state = "Loading"

\* ---- the machine with a caller of reset()
\* process is fed events of every type; reset() is public and may be called
\* between any two events. hm.pc tells which of the two was called last;
\* hm.selected tells whether a slot-select with an index in 0..9 was processed
\* since construction or the last reset().

ResetEvents ==
    {Ev("ABSOLUTE", "ABS_MT_SLOT", 9), Ev("ABSOLUTE", "ABS_MT_SLOT", 10),
     Ev("ABSOLUTE", "ABS_MT_SLOT", -1),
     Ev("ABSOLUTE", "ABS_MT_TRACKING_ID", -1),
     Ev("ABSOLUTE", "ABS_MT_TRACKING_ID", 5), Ev("ABSOLUTE", "ABS_MT_POSITION_X", AxisValue),
     Ev("ABSOLUTE", "ABS_X", AxisValue),
     Ev("KEY", "BTN_LEFT", 1), Ev("KEY", "BTN_TOUCH", 1),
     Ev("MISC", "MSC_TIMESTAMP", 0), Ev("SWITCH", "SW_LID", 1),
     Ev("SYNCHRONIZATION", "SYN_REPORT", 0)}

InitReset ==
    /\ mt = MTNew
    /\ hm = [pc |-> "none", fn |-> "process", prev |-> MTNew, ev |-> Ev("NONE", "NONE", 0),
             selected |-> FALSE]
    /\ feed = <<>>
    /\ io = <<>>
    /\ sent = <<>>

ProcessAny ==
    /\ hm.fn = "process"
    /\ \E e \in ResetEvents :
          /\ mt' = process(mt, e)
          /\ hm' = [hm EXCEPT !.pc = "processed", !.prev = mt, !.ev = e,
                              !.selected = @ \/ IsSlotSelect(e)]
    /\ UNCHANGED <<io, sent, feed>>

CallReset ==
    /\ hm.fn = "process"
    /\ mt' = reset(mt)
    /\ hm' = [hm EXCEPT !.pc = "reset", !.prev = mt, !.ev = Ev("NONE", "NONE", 0),
                        !.selected = FALSE]
    /\ UNCHANGED <<io, sent, feed>>

NextReset == ProcessAny \/ CallReset

SpecReset == InitReset /\ [][NextReset]_vars

\* C23: the machine's state is always Loading or ReadReady, never NeedsReset;
\* a sync event makes it ReadReady; from ReadReady every event leaves it
\* ReadReady (only reset() takes it back).
C23_StateLoadingOrReadReady ==
    /\ mt.state \in {"Loading", "ReadReady"}
    /\ (hm.pc = "processed" /\ hm.ev.type = "SYNCHRONIZATION") => mt.state = "ReadReady"
    /\ (hm.pc = "processed" /\ hm.prev.state = "ReadReady") => mt.state = "ReadReady"

\* an axis event processed after a sync: still ReadReady
C23_Witness ==
    /\ hm.pc = "processed"
    /\ hm.prev.state = "ReadReady"
    /\ hm.ev = Ev("ABSOLUTE", "ABS_MT_POSITION_X", AxisValue)
    /\ mt.state = "ReadReady"
    /\ mt.touches[9].position_x = AxisValue

OtherFields == DOMAIN TouchDefault \ {"used"}

\* C24: reset() leaves all 10 slots unused, the state Loading and no current
\* slot, with every other slot field and the buttons as they were; and no call
\* of process() does what reset() does: its only call of reset() is guarded by
\* a state the machine is never in.
C24_ResetEffect ==
    /\ hm.pc = "reset" =>
          /\ \A i \in SlotIndex :
                /\ ~mt.touches[i].used
                /\ \A f \in OtherFields : mt.touches[i][f] = hm.prev.touches[i][f]
          /\ mt.state = "Loading"
          /\ mt.slot = <<>>
          /\ mt.buttons = hm.prev.buttons
    /\ hm.pc = "processed" =>
          /\ hm.prev.state # "NeedsReset"
          /\ hm.prev.state = "ReadReady" => mt.state = "ReadReady"
          /\ hm.prev.slot # <<>> => mt.slot # <<>>
          /\ \A i \in SlotIndex :
                (hm.prev.touches[i].used /\ ~mt.touches[i].used)
                    => (IsAbs(hm.ev, "ABS_MT_TRACKING_ID") /\ hm.ev.value < 0 /\ i = PrevSlot)

\* reset() called on a machine with a used slot 9, stored values and a button down
C24_Witness ==
    /\ hm.pc = "reset"
    /\ hm.prev.state = "ReadReady" /\ hm.prev.slot = <<9>>
    /\ hm.prev.touches[9].used /\ hm.prev.touches[0].used
    /\ mt.touches[9].tracking_id = 5 /\ mt.touches[9].position_x = AxisValue
    /\ mt.touches[0].pressed /\ mt.buttons.left
    /\ ~mt.touches[9].used /\ ~mt.touches[0].used

\* ---- poll_events: the batches of events fetched from the device
\* hm.seq is every event processed so far, in arrival order; hm.batch is the
\* batch of the last poll and hm.ret what that poll returned.

\* for event in events { self.machine.process(&event) }, newest event first
RECURSIVE process_newest_first(_, _)
process_newest_first(m, events) ==
    IF events = <<>> THEN m
    ELSE process(process_newest_first(m, Tail(events)), Head(events))

\* for event in events { self.machine.process(&event) }
RECURSIVE process_each(_, _)
process_each(m, events) ==
    IF events = <<>> THEN m
    ELSE process_each(process(m, Head(events)), Tail(events))

OrderEvents ==
    {Ev("ABSOLUTE", "ABS_MT_SLOT", v) : v \in {0, 9, 10}}
    \cup {Ev("ABSOLUTE", "ABS_MT_POSITION_X", v) : v \in {1, 2}}
    \cup {Ev("ABSOLUTE", "ABS_MT_PRESSURE", 3)}

\* the sequences of at most n events
RECURSIVE Batches(_)
Batches(n) ==
    IF n = 0 THEN {<<>>}
    ELSE LET shorter == Batches(n - 1)
         IN  shorter \cup {Append(b, e) : b \in shorter, e \in OrderEvents}

\* what fetch_events gives: a batch, WouldBlock, or another error
FetchResults(n) ==
    {[kind |-> "Ok", events |-> b] : b \in Batches(n)}
    \cup {[kind |-> "WouldBlock", events |-> <<>>], [kind |-> "Err", events |-> <<>>]}

InitOrder ==
    /\ mt = MTNew
    /\ hm = [pc |-> "none", fn |-> "poll_events", seq |-> <<>>, batch |-> <<>>, ret |-> "none"]
    /\ feed = <<>>
    /\ io = <<>>
    /\ sent = <<>>

PollEvents ==
    /\ hm.fn = "poll_events"
    /\ \E r \in FetchResults(MaxHistory - Len(hm.seq)) :
          /\ mt' = IF r.kind = "Ok" THEN process_each(mt, r.events) ELSE mt
          /\ hm' = [hm EXCEPT
                !.pc = "polled", !.seq = @ \o r.events, !.batch = r.events,
                !.ret = CASE r.kind = "Ok" -> "Ok(Some)"
                          [] r.kind = "WouldBlock" -> "Ok(None)"
                          [] OTHER -> "Err(ReadError)"]
    /\ UNCHANGED <<io, sent, feed>>

NextOrder == PollEvents

SpecOrder == InitOrder /\ [][NextOrder]_vars

\* the slot that was current when the k-th event of h arrived
SlotAt(h, k) ==
    LET selects == {j \in 1..(k - 1) : IsSlotSelect(h[j])}
    IN  IF selects = {} THEN 0
        ELSE h[CHOOSE j \in selects : \A j2 \in selects : j2 <= j].value

\* the value of the last event of h with this axis code that arrived while
\* slot i was current; the default value if there is none
LastAxisValue(h, i, code) ==
    LET hits == {k \in 1..Len(h) : IsAbs(h[k], code) /\ SlotAt(h, k) = i}
    IN  IF hits = {} THEN 0
        ELSE h[CHOOSE k \in hits : \A k2 \in hits : k2 <= k].value

\* C25: after any sequence of events, each per-contact axis field of each slot
\* holds the value of the last event of that axis that was processed while the
\* slot was current (events are applied in arrival order, a later one
\* overwriting an earlier one).
C25_LastAxisEventWins ==
    hm.fn = "poll_events" =>
        \A i \in SlotIndex : \A code \in DOMAIN AxisField :
            mt.touches[i][AxisField[code]] = LastAxisValue(hm.seq, i, code)

\* one batch: x = 2 on slot 0, then on slot 9 x = 2 overwritten by x = 1
C25_Witness ==
    /\ hm.pc = "polled" /\ hm.ret = "Ok(Some)"
    /\ hm.batch = <<Ev("ABSOLUTE", "ABS_MT_POSITION_X", 2), Ev("ABSOLUTE", "ABS_MT_SLOT", 9),
                    Ev("ABSOLUTE", "ABS_MT_POSITION_X", 2), Ev("ABSOLUTE", "ABS_MT_POSITION_X", 1)>>
    /\ mt.touches[0].position_x = 2
    /\ mt.touches[9].position_x = 1

\* ---- the drift detector followed beyond its window
\* One acquisition loop is fed one-sample frames.  The sample may change on
\* the first two frames and right after a frame on which calibrating changed;
\* otherwise it stays, so that the window fills in a single run.  hm.all is
\* the smoothed mean of every frame so far, hm.last and hm.before are the
\* last frame and the one before it (without their data).

SampleLevels == {0, 12, 1000}

NoFrame == [n |-> 0, drift_rate |-> 0, calibrating |-> FALSE, emitted |-> <<>>]

InitWindow ==
    /\ hm = [pc |-> "feed", fn |-> "window", L |-> FreshLoop, level |-> 0,
             all |-> <<>>, last |-> NoFrame, before |-> NoFrame]
    /\ io = <<>>
    /\ sent = <<>>
    /\ MtQuiet

FeedWindow ==
    /\ hm.fn = "window"
    /\ hm.L.frame_count < DRIFT_WINDOW + MaxBeyondWindow
    /\ \E v \in IF hm.L.frame_count <= 1 \/ hm.last.calibrating # hm.before.calibrating
                THEN SampleLevels ELSE {hm.level} :
          \E f \in {frame_ok(hm.L, <<v>>, 1)} :
             hm' = [hm EXCEPT
                !.L = f.L, !.level = v,
                !.all = Append(@, f.frame.smoothed_mean),
                !.before = hm.last,
                !.last = [n |-> f.L.frame_count, drift_rate |-> f.frame.drift_rate,
                          calibrating |-> f.frame.calibrating,
                          emitted |-> SubSeq(f.L.diag, Len(hm.L.diag) + 1, Len(f.L.diag))]]
    /\ UNCHANGED <<io, sent, mt, feed>>

NextWindow == FeedWindow

SpecWindow == InitWindow /\ [][NextWindow]_vars

FramesFed == hm.L.frame_count

WindowMin(a, b) == IF a <= b THEN a ELSE b

\* C26: after every frame the history holds at most 500 entries: the smoothed
\* means of the last min(n, 500) of the n frames so far, in arrival order.
C26_HistoryIsLastWindow ==
    hm.fn = "window" =>
        LET history == hm.L.ema_history
            n == FramesFed
        IN  /\ Len(history) <= 500
            /\ Len(history) = WindowMin(n, 500)
            /\ \A k \in 1..Len(history) : history[k] = hm.all[n - Len(history) + k]

\* the 501st frame has pushed the first one out
C26_Witness ==
    /\ hm.fn = "window"
    /\ FramesFed = 501
    /\ Len(hm.L.ema_history) = 500
    /\ hm.all[1] # hm.all[2]
    /\ hm.L.ema_history[1] = hm.all[2]
    /\ hm.L.ema_history[500] = hm.all[501]

\* |drift_rate| > 0.02, drift_rate being a whole number of 1/Unit
RateExceedsThreshold(rate) ==
    /\ rate # NaN
    /\ 100 * (IF rate < 0 THEN -rate ELSE rate) > 2 * Unit

\* C27: calibrating is true on a frame exactly when the history holds 500
\* entries and |drift_rate| > 0.02; so it is false on each of the first 499
\* frames, and drift_rate is 0 on the first frame.
C27_CalibratingIffFullAndDrifting ==
    (hm.fn = "window" /\ FramesFed >= 1) =>
        /\ hm.last.calibrating
              <=> (Len(hm.L.ema_history) = 500 /\ RateExceedsThreshold(hm.last.drift_rate))
        /\ FramesFed <= 499 => ~hm.last.calibrating
        /\ FramesFed = 1 => hm.last.drift_rate = 0

\* frame 499 drifts faster than the threshold and is not calibrating, frame
\* 500 is
C27_Witness ==
    /\ hm.fn = "window"
    /\ FramesFed = 500
    /\ RateExceedsThreshold(hm.before.drift_rate) /\ ~hm.before.calibrating
    /\ hm.last.drift_rate < 0
    /\ hm.last.calibrating

Started == "CALIBRATING started"

Stopped == "CALIBRATING stopped"

\* C28: "started" is emitted exactly on a frame where calibrating is true and
\* was false on the frame before, "stopped" exactly where it is false and was
\* true; the diagnostics of a run alternate, beginning with "started".
C28_DiagnosticsOnEdges ==
    (hm.fn = "window" /\ FramesFed >= 1) =>
        /\ hm.last.emitted = <<Started>> <=> (hm.last.calibrating /\ ~hm.before.calibrating)
        /\ hm.last.emitted = <<Stopped>> <=> (~hm.last.calibrating /\ hm.before.calibrating)
        /\ hm.last.emitted \in {<<>>, <<Started>>, <<Stopped>>}
        /\ \A k \in 1..Len(hm.L.diag) :
              hm.L.diag[k] = IF k % 2 = 1 THEN Started ELSE Stopped

\* started, stopped and started again, with calibrating frames in between
C28_Witness ==
    /\ hm.fn = "window"
    /\ hm.L.diag = <<Started, Stopped, Started>>
    /\ hm.last.emitted = <<>>
    /\ hm.last.calibrating /\ hm.before.calibrating

FamilyB == hm.chip \in {"PJP255", "PJP215"}

\* C29: the Family B frame sequence issues, in this order, write bank1 0x0D =
\* 0x40, write bank1 0x0E = 0x06, write bank2 0x09 = 0x05, write bank2 0x0A =
\* 0x00, the burst read, write bank2 0x0A = 0x01.  Every call the sequence
\* makes is the next one of this order, and a sequence that succeeds has made
\* all of them.
C29_FamilyBSequenceOrder ==
    (FrameReturned /\ FamilyB) =>
        LET n == Len(io.ops)
            head == <<WriteSig(1, 13, 64), WriteSig(1, 14, 6),
                      WriteSig(2, 9, 5), WriteSig(2, 10, 0)>>
        IN  /\ \A i \in 1..n :
                  IF i <= 4 THEN OpSig(io.ops[i]) = head[i]
                  ELSE \/ OpSig(io.ops[i]) = BurstGetSig
                       \/ /\ i = n
                          /\ OpSig(io.ops[i]) = WriteSig(2, 10, 1)
            /\ io.st = "ok" =>
                  /\ n >= 5
                  /\ hm.rows * hm.cols > 0 => n >= 6
                  /\ OpSig(io.ops[n]) = WriteSig(2, 10, 1)
                  /\ \A i \in 5..(n - 1) : OpSig(io.ops[i]) = BurstGetSig

C29_Witness ==
    /\ FrameReturned /\ hm.chip = "PJP215"
    /\ hm.rows = 2 /\ hm.cols = 1 /\ hm.burst_len = 2
    /\ io.st = "ok"
    /\ Len(io.ops) = 7
    /\ OpSig(io.ops[1]) = WriteSig(1, 13, 64)
    /\ OpSig(io.ops[5]) = BurstGetSig /\ OpSig(io.ops[6]) = BurstGetSig
    /\ OpSig(io.ops[7]) = WriteSig(2, 10, 1)

\* ---- read_frame_plp239 on a fixture that stays busy
\* hm.busy is the number of status reads the fixture answers with bit 0 clear
\* before it sets it; hm.status is what the other bits of the status register
\* hold.

BusyPolls == {0, 1, 999, 1000, 1001}

StatusBits == {0, 254}

\* the calls the operating system may reject: none, or one at the start, in
\* the poll loop or after it
PollFailSets == {{}} \cup {{k} : k \in {1, 2, 3, 4, 5, 6, 2001, 2002, 2003, 2004, 2006, 2007, 2008}}

InitPoll ==
    /\ \E busy \in BusyPolls, status \in StatusBits, burst_len \in 1..2 :
          /\ io = NewIo(Device(<<REPORT_SINGLE, 6, 39>> :> status, <<1 + burst_len>>, busy, 1),
                        {}, "release")
          /\ hm = [pc |-> "call", fn |-> "read_frame_plp239", busy |-> busy,
                   status |-> status, total_bytes |-> 2, burst_len |-> burst_len]
    /\ sent = <<>>
    /\ MtQuiet

CallReadFramePlp239 ==
    /\ hm.pc = "call"
    /\ hm.fn = "read_frame_plp239"
    /\ \E fail \in PollFailSets :
          io' = read_frame_plp239(NewIo(io.dev, fail, io.build), hm.total_bytes, hm.burst_len)
    /\ hm' = [hm EXCEPT !.pc = "returned"]
    /\ UNCHANGED <<sent, mt, feed>>

NextPoll == CallReadFramePlp239

SpecPoll == InitPoll /\ [][NextPoll]_vars

PollReturned == hm.fn = "read_frame_plp239" /\ hm.pc = "returned"

\* the request for the status register: bank 6 | READ_FLAG, address 0x27
StatusRequestSig == <<"set", <<66, 39, 22, 0>>>>

\* the positions in the log at which the status register was asked for
StatusRequests == {i \in 1..Len(io.ops) : OpSig(io.ops[i]) = StatusRequestSig}

\* no call of the sequence was rejected
NoCallRejected == \A i \in 1..Len(io.ops) : io.ops[i].ok

\* C30: the Family C frame sequence reads the status register bank6 0x27 at
\* most 1000 times and stops polling at the first read with bit 0 set; when
\* bit 0 is never set it still goes on with finalize (0x25 = 0xDD), the offset
\* reset, SRAM read mode (0x25 = 0x11), the burst read and the final finalize,
\* and reports no error.
C30_PollAtMostThousandThenProceed ==
    PollReturned =>
        LET polls == Cardinality(StatusRequests)
            after == 2 + 2 * polls
        IN  /\ polls <= 1000
            /\ polls <= hm.busy + 1
            /\ NoCallRejected =>
                  /\ polls = (IF hm.busy + 1 <= 1000 THEN hm.busy + 1 ELSE 1000)
                  /\ StatusRequests = {2 * k + 1 : k \in 1..polls}
                  /\ io.st = "ok"
                  /\ Len(io.ops) >= after + 6
                  /\ OpSig(io.ops[after + 1]) = WriteSig(6, 37, 221)
                  /\ OpSig(io.ops[after + 2]) = WriteSig(4, 28, 0)
                  /\ OpSig(io.ops[after + 3]) = WriteSig(4, 29, 0)
                  /\ OpSig(io.ops[after + 4]) = WriteSig(6, 37, 17)
                  /\ \A i \in (after + 5)..(Len(io.ops) - 1) : OpSig(io.ops[i]) = BurstGetSig
                  /\ OpSig(io.ops[Len(io.ops)]) = WriteSig(6, 37, 221)

\* 1000 reads with bit 0 clear (other bits set), then the rest of the sequence
C30_Witness ==
    /\ PollReturned
    /\ hm.busy = 1001 /\ hm.status = 254 /\ hm.burst_len = 2
    /\ NoCallRejected
    /\ Cardinality(StatusRequests) = 1000
    /\ io.st = "ok"
    /\ Len(io.ops) = 2008
    /\ io.data = <<1, 2>>

\* ---- a failure inside a frame-acquisition sequence

\* the last action was an iteration of the loop: io is the log of that iteration
IterationDone ==
    /\ hm.fn = "thread"
    /\ \/ hm.loop.frame_count >= 1
       \/ hm.exit \in {"frame read error", "receiver dropped"}
       \/ hm.pc \in {"panicked", "hung"}

\* the calls of the iteration that the operating system rejected
RejectedCalls == {i \in 1..Len(io.ops) : ~io.ops[i].ok}

\* C31: when a register write, register read or burst chunk of a frame
\* sequence fails, read_frame returns that error at once: the failed call is
\* the last device operation of the frame (no later step, no rollback write),
\* no frame is sent for it and the acquisition loop exits.
C31_FrameFailureEndsSequenceAndLoop ==
    (IterationDone /\ RejectedCalls # {}) =>
        /\ RejectedCalls = {Len(io.ops)}
        /\ io.st = "err"
        /\ hm.pc = "exited" /\ hm.exit = "frame read error"
        /\ Len(sent) = hm.loop.frame_count

\* Family A, second frame: the burst chunk is rejected after chip-select was
\* asserted; nothing follows it, one frame was sent before
C31_Witness ==
    /\ IterationDone
    /\ hm.chip = "PJP274"
    /\ Len(io.ops) = 5
    /\ OpSig(io.ops[4]) = WriteSig(6, 10, 0) /\ io.ops[4].ok
    /\ OpSig(io.ops[5]) = BurstGetSig /\ ~io.ops[5].ok
    /\ hm.pc = "exited"
    /\ Len(sent) = 1

\* ------------------------------------------ whole-report touch decoder
\* What the HID parser of the operating system answers for a report is the
\* report of the model: values maps <<usage page, link collection, usage>> to
\* the value HidP_GetUsageValue gives (no entry: the call fails), usages is
\* the set of <<link collection, usage page, usage>> that HidP_GetUsagesEx
\* lists.  The cache holds max_contacts and button_caps, the set of
\* <<usage page, link collection>> that have button capabilities.

MT_TOOL_PALM == 2

\* u32 as i32
as_i32(v) == IF v > 2147483647 THEN ((v - 2147483647) - 2147483647) - 2 ELSE v

\* get_usage_value: Some(value) or None, as <<value>> or <<>>
get_usage_value(report, usage_page, link_collection, usage) ==
    IF <<usage_page, link_collection, usage>> \in DOMAIN report.values
    THEN <<report.values[<<usage_page, link_collection, usage>>]>>
    ELSE <<>>

get_button_state(cache, report, usage_page, link_collection, usage) ==
    IF <<usage_page, link_collection>> \notin cache.button_caps
    THEN \E v \in {get_usage_value(report, usage_page, link_collection, usage)} :
            v # <<>> /\ v[1] # 0
    ELSE <<link_collection, usage_page, usage>> \in report.usages

\* check_buttons: button page usages 1, 2, 3 of the collections with button
\* capabilities and of collection 0, then the usage value as a fallback
check_buttons(cache, report) ==
    LET collections == {bc[2] : bc \in {b \in cache.button_caps : b[1] = 9}} \cup {0}
        down(u) == \E l \in collections : <<l, 9, u>> \in report.usages
        fallback == \E v \in {get_usage_value(report, 9, 0, 1)} : v # <<>> /\ v[1] # 0
    IN  [left |-> down(1) \/ fallback, right |-> down(2), middle |-> down(3)]

\* if let Some(v) = get_usage_value(..) { field = v as i32 }
value_or(old, v) == IF v = <<>> THEN old ELSE as_i32(v[1])

\* the body of the loop over the link collections after the two tests: the
\* fields of one contact
parse_contact(cache, report, touch, link_collection, tip_switch) ==
    [touch EXCEPT
        !.position_x = value_or(@, get_usage_value(report, 1, link_collection, 48)),
        !.position_y = value_or(@, get_usage_value(report, 1, link_collection, 49)),
        !.tracking_id = value_or(@, get_usage_value(report, 13, link_collection, 81)),
        !.pressure = value_or(@, get_usage_value(report, 13, link_collection, 48)),
        !.touch_major = value_or(@, get_usage_value(report, 13, link_collection, 72)),
        !.touch_minor = value_or(@, get_usage_value(report, 13, link_collection, 73)),
        !.tool_type = IF get_button_state(cache, report, 13, link_collection, 71)
                      THEN @ ELSE MT_TOOL_PALM,
        !.used = tip_switch,
        !.pressed = tip_switch]

\* the loop goes on to max_contacts whatever the report's contact count
RECURSIVE parse_contacts_ignore_count(_, _, _, _, _, _)
parse_contacts_ignore_count(cache, report, contact_count, touches, slot, link_collection) ==
    IF link_collection > cache.max_contacts THEN [touches |-> touches, slot |-> slot]
    ELSE IF slot >= MAX_TOUCH_POINTS THEN [touches |-> touches, slot |-> slot]
    ELSE parse_contacts_ignore_count(cache, report, contact_count,
            [touches EXCEPT ![slot] = parse_contact(cache, report, @, link_collection,
                                get_button_state(cache, report, 13, link_collection, 66))],
            slot + 1, link_collection + 1)

\* for link_collection in 1..=cache.max_contacts { .. }, from link_collection on
RECURSIVE parse_contacts(_, _, _, _, _, _)
parse_contacts(cache, report, contact_count, touches, slot, link_collection) ==
    IF link_collection > cache.max_contacts THEN [touches |-> touches, slot |-> slot]
    ELSE IF slot >= MAX_TOUCH_POINTS \/ slot >= contact_count
    THEN [touches |-> touches, slot |-> slot]                                \* break
    ELSE Returned({
         IF ~tip_switch /\ slot >= contact_count
         THEN parse_contacts(cache, report, contact_count, touches, slot,
                             link_collection + 1)                            \* continue
         ELSE parse_contacts(cache, report, contact_count,
                 [touches EXCEPT ![slot] = parse_contact(cache, report, @, link_collection,
                                                         tip_switch)],
                 slot + 1, link_collection + 1)
         : tip_switch \in {get_button_state(cache, report, 13, link_collection, 66)}})

\* parse_touchpad_report: the TouchState made from one report; slot is the
\* loop's slot counter when the loop ended
parse_touchpad_report(cache, report) ==
    LET contact_count == IF get_usage_value(report, 13, 0, 84) = <<>> THEN 0
                         ELSE get_usage_value(report, 13, 0, 84)[1]
        filled == parse_contacts(cache, report, contact_count,
                                 [i \in SlotIndex |-> TouchDefault], 0, 1)
    IN  [touches |-> filled.touches, buttons |-> check_buttons(cache, report),
         slot |-> filled.slot]

\* ---- the decoder fed report after report
\* hm.cache is the descriptor's cache, hm.report the report decoded last,
\* hm.before the number of slots the report before it filled; sent holds the
\* TouchState of the last report.

ReportContactCounts == {<<>>, <<0>>, <<1>>, <<3>>, <<11>>}

DescriptorMaxContacts == {0, 2, 5, 12}

Links == 1..12

TipPatterns == {{}, Links, {l \in Links : l % 2 = 0}}

\* a report: its contact count, the collections with tip switch and with
\* confidence set, whether the per-contact values are there, the buttons down
Report(cache, contact_count, tips, confident, with_values, buttons) ==
    LET count == IF contact_count = <<>> THEN <<>>
                 ELSE <<13, 0, 84>> :> contact_count[1]
        per_contact ==
            IF with_values
            THEN [k \in {<<1, l, 48>> : l \in Links} \cup {<<13, l, 81>> : l \in Links}
                         \cup {<<13, l, 48>> : l \in Links}
                     |-> 100 * k[2] + k[3]]
            ELSE <<>>
        flags == [k \in {<<13, l, 66>> : l \in tips} \cup {<<13, l, 71>> : l \in confident}
                     |-> 1]
    IN  [values |-> count @@ per_contact @@ flags,
         usages |-> {<<l, 13, 66>> : l \in tips} \cup {<<l, 13, 71>> : l \in confident}
                    \cup {<<0, 9, u>> : u \in buttons},
         contact_count |-> contact_count, tips |-> tips]

InitReport ==
    /\ \E max_contacts \in DescriptorMaxContacts,
          button_caps \in {{}, {<<13, l>> : l \in Links} \cup {<<9, 0>>}} :
          hm = [pc |-> "wait", fn |-> "parse_touchpad_report",
                cache |-> [max_contacts |-> max_contacts, button_caps |-> button_caps],
                report |-> <<>>, before |-> 0]
    /\ sent = <<>>
    /\ io = <<>>
    /\ MtQuiet

\* raw_input_wnd_proc: one report parsed and its TouchState sent
DecodeReport ==
    /\ hm.fn = "parse_touchpad_report"
    /\ \E contact_count \in ReportContactCounts, tips \in TipPatterns,
          confident \in {{}, Links}, with_values \in BOOLEAN, buttons \in {{}, {1, 3}} :
          \E report \in {Report(hm.cache, contact_count, tips, confident, with_values, buttons)} :
              /\ sent' = <<parse_touchpad_report(hm.cache, report)>>
              /\ hm' = [hm EXCEPT !.pc = "parsed", !.report = report,
                                  !.before = IF sent = <<>> THEN 0 ELSE sent[1].slot]
    /\ UNCHANGED <<io, mt, feed>>

NextReport == DecodeReport

SpecReport == InitReport /\ [][NextReport]_vars

ReportParsed == hm.fn = "parse_touchpad_report" /\ hm.pc = "parsed"

\* min(contact count of the report, maximum contact count of the descriptor, 10)
FillLimit ==
    LET count == IF hm.report.contact_count = <<>> THEN 0 ELSE hm.report.contact_count[1]
    IN  Min(Min(count, hm.cache.max_contacts), 10)

\* C32: the whole-report decoder fills output slots contiguously from index 0,
\* at most min(contact count, maximum contact count, 10) of them; every slot
\* at or above that number is unused (it holds the default contact, whatever
\* earlier reports held), and each filled slot has used equal to the tip
\* switch of its contact.
C32_ReportDecoderFillsFromZero ==
    ReportParsed =>
        /\ sent[1].slot <= FillLimit
        /\ \A i \in SlotIndex :
              IF i < sent[1].slot
              THEN sent[1].touches[i].used = ((i + 1) \in hm.report.tips)
              ELSE sent[1].touches[i] = TouchDefault
        /\ \A i \in SlotIndex : i >= FillLimit => ~sent[1].touches[i].used

\* the descriptor allows 2 contacts, the report counts 3; the report before
\* filled 2 slots too
C32_Witness ==
    /\ ReportParsed
    /\ hm.cache.max_contacts = 2 /\ hm.report.contact_count = <<3>>
    /\ hm.before = 2
    /\ sent[1].slot = 2
    /\ ~sent[1].touches[0].used /\ sent[1].touches[0].position_x = 148
    /\ sent[1].touches[1].used
    /\ sent[1].touches[2] = TouchDefault

\* C33: the stored tracking_id of every slot is never negative: a lifted
\* contact shows as used = false, with the tracking_id it had.
C33_TrackingIdNeverNegative ==
    hm.fn = "process" => \A i \in SlotIndex : mt.touches[i].tracking_id >= 0

\* slot 9 lifted by a tracking id of -1: unused, its tracking_id still 5
C33_Witness ==
    /\ hm.fn = "process" /\ hm.pc = "processed"
    /\ hm.ev = Ev("ABSOLUTE", "ABS_MT_TRACKING_ID", -1)
    /\ hm.prev.slot = <<9>>
    /\ hm.prev.touches[9].used /\ hm.prev.touches[9].tracking_id = 5
    /\ ~mt.touches[9].used
    /\ mt.touches[9].tracking_id = 5

\* the event processed last is a tracking-id or per-contact axis event
PerSlotEventProcessed ==
    /\ hm.fn = "process" /\ hm.pc = "processed"
    /\ hm.ev.type = "ABSOLUTE"
    /\ hm.ev.code \in {"ABS_MT_TRACKING_ID"} \cup DOMAIN AxisField

\* C34: while no valid slot-select has been processed since construction or
\* the last reset(), every tracking-id and per-contact axis event is applied
\* to slot 0: slot 0 takes the event and no other slot changes.
C34_UnselectedEventsGoToSlotZero ==
    (PerSlotEventProcessed /\ ~hm.selected) =>
        /\ \A i \in SlotIndex \ {0} : mt.touches[i] = hm.prev.touches[i]
        /\ IF hm.ev.code = "ABS_MT_TRACKING_ID"
           THEN IF hm.ev.value < 0 THEN ~mt.touches[0].used
                ELSE mt.touches[0].tracking_id = hm.ev.value
           ELSE /\ mt.touches[0][AxisField[hm.ev.code]] = hm.ev.value
                /\ mt.touches[0].used

\* slot 9 was selected and written, reset() was called, a slot-select of 10
\* was processed: the axis event goes to slot 0
C34_Witness ==
    /\ PerSlotEventProcessed /\ ~hm.selected
    /\ hm.ev = Ev("ABSOLUTE", "ABS_MT_POSITION_X", AxisValue)
    /\ hm.prev.touches[9].position_x = AxisValue
    /\ hm.prev.touches[0].position_x = 0 /\ ~hm.prev.touches[0].used
    /\ mt.touches[0].position_x = AxisValue /\ mt.touches[0].used

\* the indices process() uses on the slot table for event e in machine m:
\* touches[0] for the tap keys, touches[value] for an accepted slot-select,
\* touches[self.slot.unwrap_or(0)] for tracking-id and axis events
TableAccesses(m, e) ==
    IF e.type = "KEY" /\ e.code \in {"BTN_TOUCH", "BTN_TOOL_DOUBLETAP"} THEN {0}
    ELSE IF e.type # "ABSOLUTE" THEN {}
    ELSE IF e.code = "ABS_MT_SLOT"
    THEN IF on_slot([m EXCEPT !.slot = <<>>], e.value).slot # <<>>
         THEN {e.value} ELSE {}
    ELSE IF e.code \in {"ABS_MT_TRACKING_ID"} \cup DOMAIN AxisField
    THEN {CurrentSlot(m)}
    ELSE {}

\* C35: in every reachable state the current-slot pointer is unset or an
\* index in 0..9, and every slot-table access of process() is within the table
C35_SlotPointerInTable ==
    hm.fn = "process" =>
        /\ mt.slot = <<>> \/ (Len(mt.slot) = 1 /\ mt.slot[1] \in SlotIndex)
        /\ DOMAIN mt.touches = SlotIndex
        /\ hm.pc = "processed" => TableAccesses(hm.prev, hm.ev) \subseteq SlotIndex

\* slot 9 is selected and slot-selects of -1 or 10 are processed: the pointer stays at 9
C35_Witness ==
    /\ hm.fn = "process" /\ hm.pc = "processed"
    /\ hm.ev \in {Ev("ABSOLUTE", "ABS_MT_SLOT", -1), Ev("ABSOLUTE", "ABS_MT_SLOT", 10)}
    /\ hm.prev.slot = <<9>> /\ mt.slot = <<9>>

\* ---------------------------------------------------------------------------
\* The evdev input thread: poll_events and the consumer's match on its result
\* ---------------------------------------------------------------------------

\* EvdevBackend::poll_events on machine m when fetch_events gives r: every
\* event of the batch is processed and the slot table is returned, whatever
\* the batch ends with
poll_events(m, r) ==
    IF r.kind = "Ok"
    THEN Returned({[machine |-> after, ret |-> "Ok(Some)", state |-> <<after.touches>>]
                   : after \in {process_each(m, r.events)}})
    ELSE IF r.kind = "WouldBlock"
    THEN [machine |-> m, ret |-> "Ok(None)", state |-> <<>>]
    ELSE [machine |-> m, ret |-> "Err(ReadError)", state |-> <<>>]

\* a frame of one contact, event by event
SnapshotEvents ==
    {Ev("ABSOLUTE", "ABS_MT_SLOT", 9), Ev("ABSOLUTE", "ABS_MT_POSITION_X", 1),
     Ev("SYNCHRONIZATION", "SYN_REPORT", 0)}

\* the sequences of at most n of these events
RECURSIVE SnapshotBatches(_)
SnapshotBatches(n) ==
    IF n = 0 THEN {<<>>}
    ELSE LET shorter == SnapshotBatches(n - 1)
         IN  shorter \cup {Append(b, e) : b \in shorter, e \in SnapshotEvents}

SnapshotFetchResults(n) ==
    {[kind |-> "Ok", events |-> b] : b \in SnapshotBatches(n)}
    \cup {[kind |-> "WouldBlock", events |-> <<>>], [kind |-> "Err", events |-> <<>>]}

\* hm.seq is every event processed so far and hm.polls the number of loop
\* iterations; each entry of sent is a forwarded TouchState together with the
\* last event processed before it was taken and the machine's state then
InitSnapshot ==
    /\ mt = MTNew
    /\ hm = [pc |-> "running", fn |-> "input_loop", seq |-> <<>>, polls |-> 0, ret |-> "none"]
    /\ sent = <<>>
    /\ feed = <<>>
    /\ io = <<>>

\* one iteration of the input thread's loop: poll, then send, sleep or break
InputLoop ==
    /\ hm.fn = "input_loop" /\ hm.pc = "running"
    /\ hm.polls < MaxHistory
    /\ \E f \in SnapshotFetchResults(MaxHistory - Len(hm.seq)) :
       \E r \in {poll_events(mt, f)} :
          /\ mt' = r.machine
          /\ hm' = [hm EXCEPT !.seq = @ \o f.events, !.polls = @ + 1, !.ret = r.ret,
                              !.pc = IF r.ret = "Err(ReadError)" THEN "exited" ELSE "running"]
          /\ sent' = IF r.ret = "Ok(Some)"
                     THEN Append(sent, [touches |-> r.state[1],
                                        after |-> hm.seq \o f.events,
                                        state |-> r.machine.state])
                     ELSE sent
    /\ UNCHANGED <<io, feed>>

NextSnapshot == InputLoop

SpecSnapshot == InitSnapshot /\ [][NextSnapshot]_vars

\* C36: every forwarded snapshot is taken at a frame boundary: the last event
\* processed before it is a sync event and the machine is ReadReady, however
\* the events are split into batches
C36_SnapshotsAtFrameBoundary ==
    hm.fn = "input_loop" =>
        \A k \in DOMAIN sent :
            /\ sent[k].after # <<>>
            /\ sent[k].after[Len(sent[k].after)].type = "SYNCHRONIZATION"
            /\ sent[k].state = "ReadReady"

\* what the loop does: a snapshot follows every fetched batch, so one is
\* forwarded in the middle of a frame when the batch ends there
C36_SnapshotAfterEveryBatch ==
    hm.fn = "input_loop" =>
        /\ hm.ret = "Ok(Some)" =>
              /\ sent # <<>>
              /\ sent[Len(sent)].touches = mt.touches
              /\ sent[Len(sent)].after = hm.seq
        /\ Len(sent) <= hm.polls

\* a frame split after its position event: the first snapshot shows slot 9
\* before the frame's sync, with the machine still Loading
C36_Witness ==
    /\ hm.fn = "input_loop" /\ Len(sent) = 2
    /\ sent[1].after = <<Ev("ABSOLUTE", "ABS_MT_SLOT", 9), Ev("ABSOLUTE", "ABS_MT_POSITION_X", 1)>>
    /\ sent[1].state = "Loading" /\ sent[1].touches[9].position_x = 1
    /\ sent[2].after = Append(sent[1].after, Ev("SYNCHRONIZATION", "SYN_REPORT", 0))
    /\ sent[2].state = "ReadReady"

\* every burst get_feature that does not fail returns at least 2 bytes
RepliesAtLeastTwo == \A k \in DOMAIN io.dev.replies : io.dev.replies[k] >= 2

\* C37: when every get_feature call fails or returns at least 2 bytes,
\* burst_read terminates (it returns Ok or the call's error, after at most
\* total_bytes iterations) and every iteration adds at least one byte; an
\* iteration whose reply is exactly 1 byte adds nothing and the loop repeats:
\* another get_feature is issued, or the fixture answers 1 byte for ever.
C37_BurstReadTerminates ==
    BurstReturned =>
        /\ RepliesAtLeastTwo =>
              /\ io.st \in {"ok", "err"}
              /\ io.st = "ok" => Len(io.data) = hm.total_bytes
              /\ Len(io.iters) <= hm.total_bytes
              /\ \A i \in DOMAIN io.iters : io.iters[i].take >= 1
        /\ \A i \in DOMAIN io.iters :
              io.iters[i].n = 1 =>
                  /\ io.iters[i].take = 0
                  /\ i < Len(io.ops) \/ io.st = "hang"

\* replies of 4 and then 2 bytes into a 4-byte buffer, 5 bytes wanted: three
\* iterations of 3, 1 and 1 bytes
C37_Witness ==
    /\ BurstReturned /\ RepliesAtLeastTwo /\ io.fail = {}
    /\ io.dev.replies = <<4, 2>> /\ hm.report_len = 3 /\ hm.total_bytes = 5
    /\ io.st = "ok"
    /\ io.iters = <<[n |-> 4, take |-> 3], [n |-> 2, take |-> 1], [n |-> 2, take |-> 1]>>

\* ---- the parser on arbitrary byte strings

\* the long-item prefix, short-item prefixes of data size 0, 2 and 4, and the
\* one-byte Report ID, Report Count and Feature prefixes with the burst id
DescBytes == {254, 0, 2, 3, 133, 65, 149, 177}

\* the byte strings of at most n of these bytes
RECURSIVE ByteStrings(_)
ByteStrings(n) ==
    IF n = 0 THEN {<<>>}
    ELSE LET shorter == ByteStrings(n - 1)
         IN  shorter \cup {Append(b, x) : b \in shorter, x \in DescBytes}

InitBytes ==
    /\ \E desc \in ByteStrings(MaxDescBytes) :
          hm = [pc |-> "call", fn |-> "parse", items |-> <<>>, tail |-> desc,
                desc |-> desc, parser |-> ParserStart]
    /\ io = <<>>
    /\ sent = <<>>
    /\ MtQuiet

NextBytes == CallParse

SpecBytes == InitBytes /\ [][NextBytes]_vars

\* C38: for every byte string the parser terminates without reading at or
\* past the end of the input: no index or slice range is out of bounds, every
\* index read is below the length, and the read index is strictly larger at
\* the start of every iteration than at the start of the one before.
C38_ParserStaysInsideInput ==
    ParseReturned =>
        /\ hm.parser.done /\ ~hm.parser.panicked
        /\ \A k \in hm.parser.reads : k >= 0 /\ k < Len(hm.desc)
        /\ \A j \in 1..(Len(hm.parser.path) - 1) : hm.parser.path[j] < hm.parser.path[j + 1]
        /\ hm.parser.path # <<>> => hm.parser.i >= hm.parser.path[Len(hm.parser.path)]
        /\ Len(hm.parser.path) <= Len(hm.desc)

\* a four-byte Report Count item cut after two data bytes following a
\* complete item: the parser stops at the cut item having read only its prefix
C38_Witness ==
    /\ ParseReturned
    /\ hm.desc = <<133, 65, 3, 0>>
    /\ hm.parser.path = <<0, 2>> /\ hm.parser.reads = {0, 1, 2}
    /\ hm.parser.ret = <<>>

\* a long item whose declared data runs past the end of the input is stepped
\* over without reading the data
C38_LongItemWitness ==
    /\ ParseReturned
    /\ hm.desc = <<254, 149, 0>>
    /\ hm.parser.reads = {0, 1} /\ hm.parser.i = 152

\* the iteration died on data.len() / display_cols with display_cols = 0
DividedByZero ==
    hm.pc = "panicked" /\ io.st = "ok" /\ hm.display_cols = 0

\* the iteration died on an unsigned subtraction below zero (debug build)
SubtractionPanicked ==
    hm.pc = "panicked" /\ io.st = "panic" /\ io.err = "subtract with overflow"

\* (dim - 1) as u8 was computed for dim = 0 and wrapped to 255 (release build)
SubtractionWrapped ==
    \E k \in DOMAIN io.ops :
        \/ hm.cols = 0 /\ OpSig(io.ops[k]) = WriteSig(6, 14, 255)
        \/ hm.rows = 0 /\ OpSig(io.ops[k]) = WriteSig(6, 15, 255)

\* C39: the acquisition loop never divides by zero and never subtracts below
\* zero when building a frame, for every dimension pair the registers can
\* report and every column override, 0 included.
C39_NoDivisionByZeroNoUnderflow ==
    hm.fn = "thread" => ~DividedByZero /\ ~SubtractionPanicked /\ ~SubtractionWrapped

====
